---- MODULE Spec2Model ----
(***************************************************************************)
(* Model of the JSONata validator's error-position mapping core:           *)
(*   - isCompleteExpression            (src/src/utils/jsonataUtils.ts)     *)
(*   - extractJsonataExpressionsFromPureJsonata                            *)
(*                           (src/src/validation/expressionExtractor.ts)   *)
(*   - ValidationService.calculateErrorLocation,                           *)
(*     adjustErrorPositionForCommonPatterns, calculateErrorRange,          *)
(*     validateJsonataText, validateDocument   (src/src/extension.ts)      *)
(*                                                                         *)
(* A text is a sequence of one-character strings.  Offsets, line indexes   *)
(* and columns are 0-based as in the source; a sequence is indexed at      *)
(* offset + 1.                                                             *)
(***************************************************************************)
EXTENDS Integers, Sequences, FiniteSets, TLC

VARIABLES
    pc,                 \* position of the running scenario
    document,           \* text of the open document
    maxProblems,        \* setting jsonataValidator.maxNumberOfProblems
    expressions,        \* spans returned by the extractor
    exprIndex,          \* number of spans the validation loop has handled
    expression,         \* expression text handed to the compiler / the scanner
    startLineIndex,     \* document line on which the expression starts
    expressionStartPos, \* document column at which the expression starts
    error,              \* error thrown by the external compiler
    location,           \* result of calculateErrorLocation
    diagnostics,        \* diagnostics collected by the running validation pass
    collection,         \* the diagnostic collection's entry for the document
    scan,               \* loop state of isCompleteExpression
    complete,           \* value returned by isCompleteExpression
    rangeArgs,          \* arguments of calculateErrorRange
    range,              \* result of calculateErrorRange
    languageId,         \* document.languageId
    fileName,           \* document.fileName
    compiler,           \* what jsonata(text) does for each expression text
    validatedText,      \* document text at the latest validateDocument call
    state,              \* PlaygroundWebviewManager.state
    editors,            \* text of each open editor document, by uri
    playgroundDiagnostics, \* playgroundDiagnosticCollection, by target
    pending,            \* evaluations suspended at `await expression.evaluate`
    evaluation,         \* what JSON.parse, jsonata and evaluate do in the
                        \* evaluation begun last
    session,            \* the PlaygroundSession handed to importSession
    answers,            \* what the user answers to importSession's prompts
    returned,           \* value returned by importSession
    currentPanel,       \* PlaygroundProvider.currentPanel: "open" or "none"
    timers,             \* number of setTimeout callbacks of the change listener
                        \* that have not run yet
    burst,              \* change events and validation runs of the burst of
                        \* changes going on
    closed              \* the document has been closed

docVars == <<document, maxProblems>>

spanVars == <<expressions, exprIndex, expression, startLineIndex, expressionStartPos>>

errorVars == <<error, location>>

passVars == <<diagnostics, collection>>

scanVars == <<scan, complete>>

rangeVars == <<rangeArgs, range>>

sessionVars == <<languageId, fileName, compiler, validatedText>>

playVars == <<state, editors, playgroundDiagnostics, pending, evaluation>>

importVars == <<session, answers, returned, currentPanel>>

typingVars == <<timers, burst, closed>>

vars == <<pc, docVars, spanVars, errorVars, passVars, scanVars, rangeVars,
          sessionVars, playVars, importVars, typingVars>>

(***************************************************************************)
(* JavaScript built-ins used by the source                                 *)
(***************************************************************************)
Min(a, b) == IF a < b THEN a ELSE b

Max(a, b) == IF a > b THEN a ELSE b

NL == "\n"

\* String.prototype.trim strips these on both ends
IsWhitespace(c) == c \in {" ", "\t", "\r", NL}

\* s.indexOf(c) for a single character c, -1 when absent
indexOf(s, c) ==
    IF \E k \in 1..Len(s) : s[k] = c
    THEN (CHOOSE k \in 1..Len(s) : s[k] = c /\ \A j \in 1..(k - 1) : s[j] # c) - 1
    ELSE -1

\* s.lastIndexOf(c) for a single character c, -1 when absent
lastIndexOf(s, c) ==
    IF \E k \in 1..Len(s) : s[k] = c
    THEN (CHOOSE k \in 1..Len(s) : s[k] = c /\ \A j \in (k + 1)..Len(s) : s[j] # c) - 1
    ELSE -1

\* s.indexOf(sub) for a string sub, -1 when absent
indexOfString(s, sub) ==
    LET at(k) == k + Len(sub) <= Len(s) /\ SubSeq(s, k + 1, k + Len(sub)) = sub
        hits == {k \in 0..Len(s) : at(k)}
    IN  IF hits = {} THEN -1 ELSE CHOOSE k \in hits : \A j \in hits : k <= j

startsWith(s, prefix) ==
    Len(prefix) <= Len(s) /\ SubSeq(s, 1, Len(prefix)) = prefix

endsWith(s, suffix) ==
    Len(suffix) <= Len(s) /\ SubSeq(s, Len(s) - Len(suffix) + 1, Len(s)) = suffix

trim(s) ==
    LET keep == {k \in 1..Len(s) : ~IsWhitespace(s[k])}
    IN  IF keep = {} THEN <<>>
        ELSE LET first == CHOOSE k \in keep : \A j \in keep : k <= j
                 last  == CHOOSE k \in keep : \A j \in keep : j <= k
             IN  SubSeq(s, first, last)

\* s.split('\n'): always at least one (possibly empty) line
RECURSIVE split(_)
split(s) ==
    LET n == indexOf(s, NL)
    IN  IF n < 0 THEN <<s>>
        ELSE <<SubSeq(s, 1, n)>> \o split(SubSeq(s, n + 2, Len(s)))

(***************************************************************************)
(* isCompleteExpression: the bracket scan                                  *)
(***************************************************************************)
\* const brackets = { '(': ')', '[': ']', '{': '}' }
brackets == [c \in {"(", "[", "{"} |->
                IF c = "(" THEN ")" ELSE IF c = "[" THEN "]" ELSE "}"]

closers == {brackets[c] : c \in DOMAIN brackets}

\* the locals of isCompleteExpression before the loop; returned is "none"
\* while the loop runs, FALSE after the early return
ScanStart == [i |-> 0, stack |-> <<>>, inString |-> FALSE, escaped |-> FALSE,
              returned |-> "none"]

\* the pop of `stack.pop() !== char`, taken only when the stack is not empty
popMismatch(st, char) ==
    [st EXCEPT !.stack = SubSeq(@, 1, Len(@) - 1), !.returned = "false"]

\* variant: a backslash does not escape the character after it
scanChar_NoEscape(st, char) ==
    LET next == [st EXCEPT !.i = @ + 1]
    IN  IF char = "\"" \/ char = "'" THEN [next EXCEPT !.inString = ~@]
        ELSE IF st.inString THEN next
        ELSE IF char \in DOMAIN brackets
             THEN [next EXCEPT !.stack = Append(@, brackets[char])]
        ELSE IF char \in closers
             THEN IF Len(st.stack) = 0
                  THEN [st EXCEPT !.returned = "false"]
                  ELSE IF st.stack[Len(st.stack)] # char
                       THEN popMismatch(st, char)
                       ELSE [next EXCEPT !.stack = SubSeq(@, 1, Len(@) - 1)]
        ELSE next

\* one iteration of the for loop, on character char
scanChar(st, char) ==
    LET next == [st EXCEPT !.i = @ + 1]
    IN  IF st.escaped THEN [next EXCEPT !.escaped = FALSE]
        ELSE IF char = "\\" THEN [next EXCEPT !.escaped = TRUE]
        ELSE IF char = "\"" \/ char = "'" THEN [next EXCEPT !.inString = ~@]
        ELSE IF st.inString THEN next
        ELSE IF char \in DOMAIN brackets
             THEN [next EXCEPT !.stack = Append(@, brackets[char])]
        ELSE IF char \in closers
             THEN IF Len(st.stack) = 0
                  THEN [st EXCEPT !.returned = "false"]
                  ELSE IF st.stack[Len(st.stack)] # char
                       THEN popMismatch(st, char)
                       ELSE [next EXCEPT !.stack = SubSeq(@, 1, Len(@) - 1)]
        ELSE next

\* variant: a text that ends inside a string literal is not complete
scanResult_ClosedString(st) ==
    st.returned = "none" /\ Len(st.stack) = 0 /\ ~st.inString

\* variant: the early return is ignored, an empty stack means complete
scanResult_StackOnly(st) == Len(st.stack) = 0

\* the value returned once the loop has ended in state st
scanResult(st) == st.returned = "none" /\ Len(st.stack) = 0

RECURSIVE scanFrom(_, _)
scanFrom(expr, st) ==
    IF st.returned # "none" \/ st.i >= Len(expr) THEN st
    ELSE scanFrom(expr, scanChar(st, expr[st.i + 1]))

isCompleteExpression(expr) == scanResult(scanFrom(expr, ScanStart))

(***************************************************************************)
(* extractJsonataExpressionsFromPureJsonata                                *)
(***************************************************************************)
\* the locals of the extractor before its loop
ExtractStart == [expressions |-> <<>>, currentExpression |-> <<>>,
                 expressionStartLine |-> -1, expressionStartPos |-> 0,
                 inMultiLineExpression |-> FALSE]

\* variant: the continuation line is trimmed before it is appended
continuationText_Trimmed(line) == <<NL>> \o trim(line)

\* variant: the continuation line is joined by a blank
continuationText_Blank(line) == <<" ">> \o line

\* the text appended for a continuation line: '\n' + line, the line untrimmed
continuationText(line) == <<NL>> \o line

\* variant: only blank lines are skipped, comment lines start a span
isSkippable_BlankOnly(trimmedLine) == trimmedLine = <<>>

\* `!trimmedLine || trimmedLine.startsWith('//') || trimmedLine.startsWith('/*')`
isSkippable(trimmedLine) ==
    \/ trimmedLine = <<>>
    \/ startsWith(trimmedLine, <<"/", "/">>)
    \/ startsWith(trimmedLine, <<"/", "*">>)

\* one iteration of the extractor's loop, on line lineIndex
extractLine(st, lineIndex, line) ==
    LET trimmedLine == trim(line)
    IN  IF ~st.inMultiLineExpression /\ isSkippable(trimmedLine) THEN st
        ELSE IF ~st.inMultiLineExpression /\ trimmedLine # <<>>
        THEN LET startPos == indexOfString(line, trimmedLine)
                 incomplete == ~isCompleteExpression(trimmedLine)
             IN  [st EXCEPT
                    !.currentExpression = trimmedLine,
                    !.expressionStartLine = lineIndex,
                    !.expressionStartPos = startPos,
                    !.inMultiLineExpression = incomplete,
                    !.expressions =
                        IF incomplete THEN @
                        ELSE Append(@, [expression |-> trimmedLine,
                                        line |-> lineIndex,
                                        startPos |-> startPos,
                                        endPos |-> startPos + Len(trimmedLine)])]
        ELSE IF st.inMultiLineExpression
        THEN LET current == st.currentExpression \o continuationText(line)
             IN  IF isCompleteExpression(current)
                 THEN [st EXCEPT
                         !.expressions =
                             Append(@, [expression |-> current,
                                        line |-> st.expressionStartLine,
                                        startPos |-> st.expressionStartPos,
                                        endPos |-> Len(line)]),
                         !.currentExpression = <<>>,
                         !.inMultiLineExpression = FALSE]
                 ELSE [st EXCEPT !.currentExpression = current]
        ELSE st

RECURSIVE extractFrom(_, _, _)
extractFrom(lines, lineIndex, st) ==
    IF lineIndex >= Len(lines) THEN st
    ELSE extractFrom(lines, lineIndex + 1,
                     extractLine(st, lineIndex, lines[lineIndex + 1]))

\* variant: an expression still in progress at the end of the text is dropped
extractJsonataExpressionsFromPureJsonata_DropsUnfinished(text) ==
    extractFrom(split(text), 0, ExtractStart).expressions

\* the spans of a document text
extractJsonataExpressionsFromPureJsonata(text) ==
    LET st == extractFrom(split(text), 0, ExtractStart)
    IN  IF st.inMultiLineExpression /\ trim(st.currentExpression) # <<>>
        THEN Append(st.expressions,
                    [expression |-> st.currentExpression,
                     line |-> st.expressionStartLine,
                     startPos |-> st.expressionStartPos,
                     endPos |-> Len(st.currentExpression)])
        ELSE st.expressions

(***************************************************************************)
(* ValidationService.calculateErrorLocation                                *)
(*                                                                         *)
(* A compiler error is [hasPosition, position, token]; token <<>> stands   *)
(* for a missing or empty token (both falsy, both unequal to any closer).  *)
(***************************************************************************)
EndToken == <<"(", "e", "n", "d", ")">>

\* variant: only a missing position is degenerate, a negative one is not
isDegenerate_OnlyMissing(err) == ~err.hasPosition

\* `typeof errorPosition !== 'number' || errorPosition < 0`
isDegenerate(err) == ~err.hasPosition \/ err.position < 0

\* variant: the offset just after a line's last character is not on the line
lineContains_Strict(errorPosition, currentPosition, lineLength) ==
    errorPosition < currentPosition + lineLength

\* `errorPosition <= currentPosition + lineLength`
lineContains(errorPosition, currentPosition, lineLength) ==
    errorPosition <= currentPosition + lineLength

\* the for loop up to its break: the first line that contains errorPosition
RECURSIVE locateLine(_, _, _, _)
locateLine(expressionLines, errorPosition, i, currentPosition) ==
    IF i >= Len(expressionLines) THEN [hit |-> FALSE, i |-> i, currentPosition |-> currentPosition]
    ELSE IF lineContains(errorPosition, currentPosition, Len(expressionLines[i + 1]))
         THEN [hit |-> TRUE, i |-> i, currentPosition |-> currentPosition]
         ELSE locateLine(expressionLines, errorPosition, i + 1,
                         currentPosition + Len(expressionLines[i + 1]) + 1)

\* Pattern 1 / Pattern 2 for closer c
trailingCommaPattern(c, errorToken, expressionLines, currentLineIndex) ==
    /\ errorToken = <<c>>
    /\ currentLineIndex > 0
    /\ trim(expressionLines[currentLineIndex + 1]) = <<c>>
    /\ endsWith(trim(expressionLines[currentLineIndex]), <<",">>)
    /\ lastIndexOf(expressionLines[currentLineIndex], ",") >= 0

adjustErrorPositionForCommonPatterns(errorToken, expressionLines, currentLineIndex) ==
    IF \/ trailingCommaPattern("}", errorToken, expressionLines, currentLineIndex)
       \/ trailingCommaPattern("]", errorToken, expressionLines, currentLineIndex)
    THEN LET commaPosition == lastIndexOf(expressionLines[currentLineIndex], ",")
         IN  [adjusted |-> TRUE, lineIndex |-> currentLineIndex - 1,
              startChar |-> commaPosition, endChar |-> commaPosition + 1]
    ELSE [adjusted |-> FALSE, lineIndex |-> 0, startChar |-> 0, endChar |-> 0]

\* variant: the expression's start column is added on every line
columnOnLine_AlwaysShift(lineIndex, startPos, charInLine) == startPos + charInLine

\* column of an in-line offset: only the expression's first line is shifted
columnOnLine(lineIndex, startPos, charInLine) ==
    IF lineIndex = 0 THEN startPos + charInLine ELSE charInLine

\* variant: the token's length is ignored, every span is one character wide
tokenSpan_SingleChar(errorToken, targetStartChar, charPositionInLine, lineLength) ==
    [startChar |-> targetStartChar, endChar |-> targetStartChar + 1]

\* the else branch of `if (adjustedPosition)`: span from the token
tokenSpan(errorToken, targetStartChar, charPositionInLine, lineLength) ==
    IF errorToken # <<>> /\ errorToken # EndToken
    THEN [startChar |-> targetStartChar, endChar |-> targetStartChar + Len(errorToken)]
    ELSE IF errorToken = EndToken
    THEN IF charPositionInLine >= lineLength
         THEN IF lineLength = 0
              THEN [startChar |-> 0, endChar |-> 0]
              ELSE [startChar |-> lineLength - 1, endChar |-> lineLength]
         ELSE [startChar |-> targetStartChar, endChar |-> targetStartChar + 1]
    ELSE [startChar |-> targetStartChar, endChar |-> targetStartChar + 1]

\* the body of the loop for the line that contains the error
targetOnLine(err, expressionLines, i, currentPosition, startLine, startPos) ==
    LET lineLength == Len(expressionLines[i + 1])
        charPositionInLine == err.position - currentPosition
        targetStartChar == columnOnLine(i, startPos, charPositionInLine)
        adjustedPosition ==
            adjustErrorPositionForCommonPatterns(err.token, expressionLines, i)
        span == tokenSpan(err.token, targetStartChar, charPositionInLine, lineLength)
    IN  IF adjustedPosition.adjusted
        THEN [line |-> startLine + adjustedPosition.lineIndex,
              startChar |-> columnOnLine(adjustedPosition.lineIndex, startPos,
                                         adjustedPosition.startChar),
              endChar |-> columnOnLine(adjustedPosition.lineIndex, startPos,
                                       adjustedPosition.endChar)]
        ELSE [line |-> startLine + i, startChar |-> span.startChar,
              endChar |-> span.endChar]

\* variant: the guard applies only strictly past the end of the text
isBeyondEnd_Strict(errorPosition, expr) == errorPosition > Len(expr)

\* `errorPosition >= expression.length`
isBeyondEnd(errorPosition, expr) == errorPosition >= Len(expr)

\* variant: the span is left one past the last character, zero wide
beyondEndTarget_PastEnd(expressionLines, startLine, startPos) ==
    LET lastLineIndex == Len(expressionLines) - 1
        column == (IF lastLineIndex = 0 THEN startPos ELSE 0)
                    + Len(expressionLines[lastLineIndex + 1])
    IN  [line |-> startLine + lastLineIndex, startChar |-> column,
         endChar |-> column]

\* the body of `if (errorPosition >= expression.length)`
beyondEndTarget(expressionLines, startLine, startPos) ==
    LET lastLineIndex == Len(expressionLines) - 1
        lastLine == expressionLines[lastLineIndex + 1]
    IN  [line |-> startLine + lastLineIndex,
         startChar |->
            IF lastLineIndex = 0
            THEN IF Len(lastLine) = 0 THEN startPos ELSE startPos + Len(lastLine) - 1
            ELSE IF Len(lastLine) = 0 THEN 0 ELSE Len(lastLine) - 1,
         endChar |->
            IF lastLineIndex = 0
            THEN IF Len(lastLine) = 0 THEN startPos ELSE startPos + Len(lastLine)
            ELSE IF Len(lastLine) = 0 THEN 0 ELSE Len(lastLine)]

calculateErrorLocation(expr, err, startLine, startPos) ==
    IF isDegenerate(err)
    THEN [line |-> startLine, startChar |-> startPos,
          endChar |-> startPos + Len(split(expr)[1])]
    ELSE LET expressionLines == split(expr)
             found == locateLine(expressionLines, err.position, 0, 0)
             inLoop ==
                IF found.hit
                THEN targetOnLine(err, expressionLines, found.i,
                                  found.currentPosition, startLine, startPos)
                ELSE [line |-> startLine, startChar |-> startPos,
                      endChar |-> startPos + 1]
             target ==
                IF isBeyondEnd(err.position, expr)
                THEN beyondEndTarget(expressionLines, startLine, startPos)
                ELSE inLoop
         IN  [line |-> target.line,
              startChar |-> Max(0, target.startChar),
              endChar |-> Max(target.startChar, target.endChar)]

(***************************************************************************)
(* ValidationService.calculateErrorRange                                   *)
(*                                                                         *)
(* doc is the sequence of the document's lines; offset is                  *)
(* [present, line, character], the start of the selection if any.          *)
(***************************************************************************)
NoOffset == [present |-> FALSE, line |-> 0, character |-> 0]

\* `Math.min(actualLineIndex, maxLines - 1)`
clampLine(lineIndex, lineCount) == Min(lineIndex, lineCount - 1)

\* variant: the start column is not raised to 0
clampStart_NoFloor(startCharacter, lineLength) == Min(startCharacter, lineLength)

\* variant: the start column is taken as 1-based and shifted left
clampStart_OneBased(startCharacter, lineLength) ==
    Max(0, Min(startCharacter - 1, lineLength))

\* `Math.max(0, Math.min(startCharacter, lineLength))`
clampStart(startCharacter, lineLength) == Max(0, Min(startCharacter, lineLength))

\* `Math.max(startCharacter, Math.min(endCharacter, lineLength))`
clampEnd(startCharacter, endCharacter, lineLength) ==
    Max(startCharacter, Min(endCharacter, lineLength))

\* variant: a start column at the end of the line is left where it is
isPastContent_Never(startCharacter, lineLength) == FALSE

\* `if (startCharacter >= lineLength && lineLength > 0)`
isPastContent(startCharacter, lineLength) ==
    startCharacter >= lineLength /\ lineLength > 0

\* variant: the selection's column is added on every line
addsOffsetCharacter_EveryLine(offset, lineIndex) == offset.present

\* `if (lineIndex === 0)` inside `if (offset)`
addsOffsetCharacter(offset, lineIndex) == offset.present /\ lineIndex = 0

calculateErrorRange(doc, lineIndex, startPos, endPos, offset) ==
    LET shiftColumns == addsOffsetCharacter(offset, lineIndex)
        offsetLine == IF offset.present THEN offset.line + lineIndex ELSE lineIndex
        startIn == IF shiftColumns THEN offset.character + startPos ELSE startPos
        endIn == IF shiftColumns THEN offset.character + endPos ELSE endPos
        actualLineIndex == clampLine(offsetLine, Len(doc))
        lineLength == Len(doc[actualLineIndex + 1])
        startClamped == clampStart(startIn, lineLength)
        endClamped == clampEnd(startClamped, endIn, lineLength)
        startCharacter ==
            IF isPastContent(startClamped, lineLength) THEN lineLength - 1
            ELSE IF startClamped >= lineLength /\ lineLength = 0 THEN 0
            ELSE startClamped
        endCharacter ==
            IF isPastContent(startClamped, lineLength) THEN lineLength
            ELSE IF startClamped >= lineLength /\ lineLength = 0 THEN 0
            ELSE IF endClamped > lineLength THEN lineLength
            ELSE endClamped
    IN  [line |-> actualLineIndex,
         startChar |-> startCharacter,
         endChar |-> Max(startCharacter, endCharacter)]

\* createDiagnosticFromJsonataError: the diagnostic for compiler error err
\* on the span (expr, startLine, startPos) of document text doc
createDiagnosticFromJsonataError(err, expr, doc, startLine, startPos, offset) ==
    LET errorLocation == calculateErrorLocation(expr, err, startLine, startPos)
    IN  [range |-> calculateErrorRange(split(doc), errorLocation.line,
                                       errorLocation.startChar,
                                       errorLocation.endChar, offset),
         severity |-> "Error"]

(***************************************************************************)
(* Bounds and input sets                                                   *)
(***************************************************************************)
\* longest generated document text
MaxDocLen == 5

\* characters of the generated documents: an opener, the two closers of the
\* trailing-comma patterns, the comma, a blank and the line break
LocAlphabet == {"{", ",", "}", "]", " ", NL}

TextsUpTo(alphabet, n) == UNION {[1..k -> alphabet] : k \in 0..n}

\* 'users[age > 25].name'
SingleLineExample ==
    <<"u", "s", "e", "r", "s", "[", "a", "g", "e", " ", ">", " ", "2", "5",
      "]", ".", "n", "a", "m", "e">>

\* 'a(\nb)'
ColumnResetExample == <<"a", "(", NL, "b", ")">>

\* '{\n  "a": 1,\n}'
TrailingCommaExample ==
    <<"{", NL, " ", " ", "\"", "a", "\"", ":", " ", "1", ",", NL, "}">>

\* '$count(items'
EndOfInputExample ==
    <<"$", "c", "o", "u", "n", "t", "(", "i", "t", "e", "m", "s">>

\* the four lines of the trailing-comma test case:
\*   {
\*     "engineeringUsers": users[department = "Engineering"],
\*     "count": $count(users),
\*   }
TrailingCommaDocument ==
    <<"{", NL, " ", " ", "\"", "e", "n", "g", "i", "n", "e", "e", "r", "i",
      "n", "g", "U", "s", "e", "r", "s", "\"", ":", " ", "u", "s", "e", "r",
      "s", "[", "d", "e", "p", "a", "r", "t", "m", "e", "n", "t", " ", "=",
      " ", "\"", "E", "n", "g", "i", "n", "e", "e", "r", "i", "n", "g", "\"",
      "]", ",", NL, " ", " ", "\"", "c", "o", "u", "n", "t", "\"", ":", " ",
      "$", "c", "o", "u", "n", "t", "(", "u", "s", "e", "r", "s", ")", ",",
      NL, "}">>

ExampleTexts == {SingleLineExample, ColumnResetExample, TrailingCommaExample,
                 EndOfInputExample, TrailingCommaDocument}

\* an example text alone, indented by two blanks, or after an empty line
ExampleDocuments ==
    ExampleTexts \cup {<<" ", " ">> \o e : e \in ExampleTexts}
                 \cup {<<NL>> \o e : e \in ExampleTexts}

LocDocuments == TextsUpTo(LocAlphabet, MaxDocLen) \cup ExampleDocuments

\* 'users'
UsersToken == <<"u", "s", "e", "r", "s">>

\* tokens a compiler error may carry: none, a closer, the end-of-input
\* sentinel, a five-character token
Tokens == {<<>>, <<"}">>, <<"]">>, EndToken, UsersToken}

\* errors the compiler may throw for expression text expr: no position, a
\* negative one, every offset up to one past the end of the text
CompilerErrors(expr) ==
    {[hasPosition |-> FALSE, position |-> 0, token |-> t] : t \in Tokens}
    \cup {[hasPosition |-> TRUE, position |-> p, token |-> t] :
            p \in (-1)..(Len(expr) + 1), t \in Tokens}

NoError == [hasPosition |-> FALSE, position |-> 0, token |-> <<>>]

NoLocation == [line |-> -1, startChar |-> -1, endChar |-> -1]

NoRangeArgs == [lineIndex |-> 0, startPos |-> 0, endPos |-> 0, offset |-> NoOffset]

\* `config.get<number>('maxNumberOfProblems', 100)`
DefaultMaxProblems == 100

(***************************************************************************)
(* Scenario "locate": a document is opened, the extractor splits it into   *)
(* spans, the compiler rejects one span and the resolver locates the error *)
(***************************************************************************)
\* values of the variables a scenario does not use
IdleSpan ==
    /\ expressions = <<>>
    /\ exprIndex = 0
    /\ expression = <<>>
    /\ startLineIndex = 0
    /\ expressionStartPos = 0

IdleError == error = NoError /\ location = NoLocation

IdlePass == diagnostics = <<>> /\ collection = <<>>

IdleScan == scan = ScanStart /\ complete = FALSE

IdleRange == rangeArgs = NoRangeArgs /\ range = NoLocation

\* 't.jsonata'
JsonataFileName ==
    <<"t", ".", "j", "s", "o", "n", "a", "t", "a">>

\* no expression text has been handed to the compiler
NoCompiler == <<>>

\* validateDocument has not run yet
NotValidated == <<"not validated">>

IdleSession ==
    /\ languageId = "jsonata"
    /\ fileName = JsonataFileName
    /\ compiler = NoCompiler
    /\ validatedText = NotValidated

\* the JSON input a new playground starts with
DefaultJsonInput ==
    <<"{", NL, " ", " ", "\"", "e", "x", "a", "m", "p", "l", "e", "\"", ":",
      " ", "[", NL, " ", " ", " ", " ", "{", "\"", "v", "a", "l", "u", "e",
      "\"", ":", " ", "4", "}", ",", NL, " ", " ", " ", " ", "{", "\"", "v",
      "a", "l", "u", "e", "\"", ":", " ", "7", "}", ",", NL, " ", " ", " ",
      " ", "{", "\"", "v", "a", "l", "u", "e", "\"", ":", " ", "1", "3", "}",
      NL, " ", " ", "]", NL, "}">>

\* 'example[value > 5].value'
DefaultJsonataExpression ==
    <<"e", "x", "a", "m", "p", "l", "e", "[", "v", "a", "l", "u", "e", " ",
      ">", " ", "5", "]", ".", "v", "a", "l", "u", "e">>

\* `errorDetails: null`
NoErrorDetails ==
    [type |-> "none", hasPosition |-> FALSE, position |-> 0, token |-> <<>>,
     hasLine |-> FALSE, line |-> 0, character |-> 0]

\* the field initialiser of PlaygroundWebviewManager.state
InitialState ==
    [jsonInput |-> DefaultJsonInput,
     jsonataExpression |-> DefaultJsonataExpression,
     result |-> <<>>,
     error |-> "null",
     errorDetails |-> NoErrorDetails,
     selectedJsonInputEditor |-> "null",
     selectedTemplateEditor |-> "null"]

\* an external call that returns: nothing is thrown
Returns == [throws |-> FALSE, error |-> NoError]

\* the evaluation the constructor starts: the default input parses, the
\* default expression compiles and evaluates to [7, 13]
NoEvaluation ==
    [jsonInput |-> DefaultJsonInput,
     jsonataExpression |-> DefaultJsonataExpression,
     parses |-> TRUE, compile |-> Returns, run |-> Returns, value |-> "[7,13]"]

IdlePlay ==
    /\ state = InitialState
    /\ editors = <<>>
    /\ playgroundDiagnostics = {}
    /\ pending = <<>>
    /\ evaluation = NoEvaluation

NoSession ==
    [source |-> "none", loads |-> FALSE, version |-> "1.0",
     jsonInput |-> <<>>, jsonataExpression |-> <<>>]

NoAnswers == [pick |-> "none", proceed |-> "none", confirm |-> "none"]

IdleImport ==
    /\ session = NoSession /\ answers = NoAnswers /\ returned = "none"
    /\ currentPanel = "none"

\* no change event has happened
NoBurst == [events |-> 0, runs |-> 0]

IdleTyping == timers = 0 /\ burst = NoBurst /\ closed = FALSE

InitLocate ==
    /\ pc = "extract"
    /\ IdleTyping
    /\ document \in LocDocuments
    /\ maxProblems = DefaultMaxProblems
    /\ IdleSpan /\ IdleError /\ IdlePass /\ IdleScan /\ IdleRange
    /\ IdleSession /\ IdlePlay /\ IdleImport

\* validateJsonataText up to the call of validateSingleJsonataExpression on
\* one of the spans
ExtractSpan ==
    /\ pc = "extract"
    /\ expressions' = extractJsonataExpressionsFromPureJsonata(document)
    /\ \E k \in 1..Len(expressions') :
          /\ exprIndex' = k
          /\ expression' = expressions'[k].expression
          /\ startLineIndex' = expressions'[k].line
          /\ expressionStartPos' = expressions'[k].startPos
    /\ pc' = "compile"
    /\ UNCHANGED <<typingVars, sessionVars, playVars, importVars,
                   docVars, errorVars, passVars, scanVars, rangeVars>>

\* jsonata(expression) throws; createDiagnosticFromJsonataError resolves it
LocateError ==
    /\ pc = "compile"
    /\ \E err \in CompilerErrors(expression) :
          /\ error' = err
          /\ location' = calculateErrorLocation(expression, err, startLineIndex,
                                                expressionStartPos)
    /\ pc' = "located"
    /\ UNCHANGED <<typingVars, sessionVars, playVars, importVars,
                   docVars, spanVars, passVars, scanVars, rangeVars>>

NextLocate == ExtractSpan \/ LocateError

SpecLocate == InitLocate /\ [][NextLocate]_vars

(***************************************************************************)
(* Properties of the resolver (scenario "locate")                          *)
(***************************************************************************)
Located == pc = "located"

\* lines of the resolved expression, and of the document
ExprLines == split(expression)

DocLines == split(document)

\* cursor_i: the sum over the lines before line i of length + 1
RECURSIVE CursorAt(_, _)
CursorAt(lines, i) ==
    IF i = 0 THEN 0 ELSE CursorAt(lines, i - 1) + Len(lines[i]) + 1

\* the first line index i with p <= cursor_i + length(line i), -1 if none
LocalizedLine(lines, p) ==
    LET hits == {i \in 0..(Len(lines) - 1) :
                    p <= CursorAt(lines, i) + Len(lines[i + 1])}
    IN  IF hits = {} THEN -1 ELSE CHOOSE i \in hits : \A j \in hits : i <= j

\* line i is exactly the closer the token names and line i-1 ends with ','
TrailingCommaShape(lines, i, token) ==
    /\ i > 0
    /\ token \in {<<"}">>, <<"]">>}
    /\ trim(lines[i + 1]) = token
    /\ trim(lines[i]) # <<>>
    /\ trim(lines[i])[Len(trim(lines[i]))] = ","

\* the error carries an offset inside the expression text
PositionInside ==
    error.hasPosition /\ error.position >= 0 /\ error.position < Len(expression)

\* document column of the first character of expression line i
LineShift(i) == IF i = 0 THEN expressionStartPos ELSE 0

\* the location is the last comma of its document line, one character wide
OnLastCommaOfDocumentLine ==
    LET text == DocLines[location.line + 1]
    IN  /\ location.startChar + 1 \in 1..Len(text)
        /\ text[location.startChar + 1] = ","
        /\ \A k \in (location.startChar + 2)..Len(text) : text[k] # ","
        /\ location.endChar = location.startChar + 1

\* C2: a position that line localization places on expression line i is
\* redirected to line i-1 exactly when i > 0, the token is '}' or ']', line i
\* trimmed is that closer and line i-1 trimmed ends with ','; the result is
\* then the last comma of line i-1, one character wide; in every other case
\* the result stays on line i.
C2_TrailingCommaRedirect ==
    (Located /\ error.hasPosition /\ error.position >= 0
       /\ LocalizedLine(ExprLines, error.position) >= 0)
    => LET i == LocalizedLine(ExprLines, error.position)
       IN  IF TrailingCommaShape(ExprLines, i, error.token)
           THEN /\ location.line = startLineIndex + i - 1
                /\ OnLastCommaOfDocumentLine
           ELSE location.line = startLineIndex + i

SentinelAtLineEnd(i) ==
    /\ error.token = EndToken
    /\ error.position = CursorAt(ExprLines, i) + Len(ExprLines[i + 1])

C4_TokenLengthSpan ==
    (Located /\ PositionInside)
    => LET i == LocalizedLine(ExprLines, error.position)
       IN  /\ (~TrailingCommaShape(ExprLines, i, error.token)
                 /\ error.token # EndToken /\ error.token # <<>>)
              => location.endChar = location.startChar + Len(error.token)
           /\ error.token = <<>>
              => location.endChar = location.startChar + 1
           /\ (expression = SingleLineExample /\ error.position = 0
                 /\ error.token = UsersToken)
              => location = [line |-> startLineIndex,
                             startChar |-> expressionStartPos,
                             endChar |-> expressionStartPos + 5]

C4_Witness ==
    /\ Located
    /\ expression = SingleLineExample
    /\ expressionStartPos = 2
    /\ error.hasPosition /\ error.position = 0
    /\ error.token = UsersToken
    /\ location.endChar = 7

\* C5: '(end)' at position = text length resolves to the final line of the
\* expression with a span covering exactly its last character, or to
\* startChar = endChar = 0 when the final line is empty.
C5_EndOfInputSentinel ==
    (Located /\ error.hasPosition /\ error.token = EndToken
       /\ error.position = Len(expression))
    => LET last == Len(ExprLines) - 1
           lastLine == ExprLines[last + 1]
       IN  /\ location.line = startLineIndex + last
           /\ IF lastLine = <<>>
              THEN location.startChar = 0 /\ location.endChar = 0
              ELSE /\ location.startChar = LineShift(last) + Len(lastLine) - 1
                   /\ location.endChar = location.startChar + 1
                   /\ DocLines[location.line + 1][location.startChar + 1]
                        = expression[Len(expression)]
           /\ (last = 0 /\ expressionStartPos = 0)
              => /\ location.startChar = Len(expression) - 1
                 /\ location.endChar = Len(expression)

\* '$count(items' at column 0 with '(end)' at offset 12: columns 11..12
C5_Witness ==
    /\ Located
    /\ expression = EndOfInputExample
    /\ expressionStartPos = 0
    /\ error.hasPosition /\ error.position = 12
    /\ error.token = EndToken
    /\ location.startChar = 11 /\ location.endChar = 12

\* C10: the resolver's output has startChar >= 0 and endChar > startChar,
\* the only exception being startChar = endChar = 0 on an empty line.
C10_ResolvedLocationInvariant ==
    Located
    => /\ location.startChar >= 0
       /\ \/ location.endChar > location.startChar
          \/ /\ location.startChar = 0
             /\ location.endChar = 0
             /\ DocLines[location.line + 1] = <<>>

\* the exception: a zero-width span at column 0 of an empty line
C10_Witness ==
    /\ Located
    /\ location.startChar = 0
    /\ location.endChar = 0
    /\ DocLines[location.line + 1] = <<>>

MaxNestLen == 6

\* longest text enumerated over the whole scan alphabet
MaxScanLen == 3

Openers == DOMAIN brackets

BracketChars == Openers \cup closers

ScanAlphabet == BracketChars \cup {"\"", "'", "\\", "a"}

\* '"unterminated'
UnterminatedExample ==
    <<"\"", "u", "n", "t", "e", "r", "m", "i", "n", "a", "t", "e", "d">>

\* '"a\"b"'
EscapedQuoteExample == <<"\"", "a", "\\", "\"", "b", "\"">>

\* what may stand between the quotes of a quoted substring: a bracket
\* character, a letter, or a backslash-escaped quote
QuotedAtoms == {<<c>> : c \in BracketChars \cup {"a"}} \cup {<<"\\", "\"">>}

\* the bodies of quoted substrings, of length at most n
RECURSIVE QuotedBodies(_)
QuotedBodies(n) ==
    IF n <= 0 THEN {<<>>}
    ELSE {<<>>} \cup UNION {{a \o b : b \in QuotedBodies(n - Len(a))} :
                              a \in {x \in QuotedAtoms : Len(x) <= n}}

\* the quoted substrings of length at most n
Quoted(n) ==
    IF n < 2 THEN {} ELSE {<<"\"">> \o b \o <<"\"">> : b \in QuotedBodies(n - 2)}

\* concatenations of quoted substrings only, of length at most n
RECURSIVE QuotedRuns(_)
QuotedRuns(n) ==
    {<<>>} \cup UNION {{q \o r : r \in QuotedRuns(n - Len(q))} : q \in Quoted(n)}

\* concatenations of well-nested bracket groups and quoted substrings, of
\* length at most n
RECURSIVE WellNested(_)
WellNested(n) ==
    IF n <= 0 THEN {<<>>}
    ELSE {<<>>}
         \cup UNION {{q \o y : y \in WellNested(n - Len(q))} : q \in Quoted(n)}
         \cup UNION {UNION {{<<o>> \o x \o <<brackets[o]>> \o y :
                                y \in WellNested(n - 2 - Len(x))} :
                            x \in WellNested(n - 2)} :
                     o \in IF n >= 2 THEN Openers ELSE {}}

WellNestedTexts == WellNested(MaxNestLen)

\* a well-nested text without its final closing bracket: the text is
\* x (y) r with x, y well nested and r quoted substrings only
CutTexts ==
    UNION {UNION {UNION {{x \o <<o>> \o y \o r :
                            r \in QuotedRuns(MaxNestLen - 2 - Len(x) - Len(y))} :
                         y \in WellNested(MaxNestLen - 2 - Len(x))} :
                  x \in WellNested(MaxNestLen - 2)} :
           o \in Openers}

ScanTexts ==
    WellNestedTexts \cup CutTexts \cup TextsUpTo(ScanAlphabet, MaxScanLen)
        \cup {UnterminatedExample, EscapedQuoteExample}

InitComplete ==
    /\ pc = "scan"
    /\ IdleTyping
    /\ expression \in ScanTexts
    /\ document = <<>>
    /\ maxProblems = DefaultMaxProblems
    /\ expressions = <<>>
    /\ exprIndex = 0
    /\ startLineIndex = 0
    /\ expressionStartPos = 0
    /\ IdleError /\ IdlePass /\ IdleScan /\ IdleRange
    /\ IdleSession /\ IdlePlay /\ IdleImport

\* one iteration of the for loop of isCompleteExpression
ScanStep ==
    /\ pc = "scan"
    /\ scan.returned = "none"
    /\ scan.i < Len(expression)
    /\ scan' = scanChar(scan, expression[scan.i + 1])
    /\ UNCHANGED <<typingVars, sessionVars, playVars, importVars,
                   pc, complete, docVars, spanVars, errorVars, passVars, rangeVars>>

\* the return: `return false` inside the loop or `return stack.length === 0`
ScanReturn ==
    /\ pc = "scan"
    /\ scan.returned # "none" \/ scan.i >= Len(expression)
    /\ complete' = scanResult(scan)
    /\ pc' = "scanned"
    /\ UNCHANGED <<typingVars, sessionVars, playVars, importVars,
                   scan, docVars, spanVars, errorVars, passVars, rangeVars>>

NextComplete == ScanStep \/ ScanReturn

SpecComplete == InitComplete /\ [][NextComplete]_vars

Scanned == pc = "scanned"

\* the scan is about to read a closer outside a string with an empty stack
\* or a top that does not match it
AtUnmatchedCloser ==
    /\ pc = "scan"
    /\ scan.returned = "none"
    /\ scan.i < Len(expression)
    /\ ~scan.escaped
    /\ ~scan.inString
    /\ expression[scan.i + 1] \in closers
    /\ \/ Len(scan.stack) = 0
       \/ scan.stack[Len(scan.stack)] # expression[scan.i + 1]

\* C6: every concatenation of well-nested groups and quoted substrings is
\* complete; without its final closing bracket it is not; a closer met with
\* an empty stack or a non-matching top returns false at once, the rest of
\* the text unread.
C6_BalancedIsComplete ==
    /\ [](Scanned /\ expression \in WellNestedTexts => complete)
    /\ [](Scanned /\ expression \in CutTexts => ~complete)
    /\ [][AtUnmatchedCloser
            => scan'.returned = "false" /\ scan'.i = scan.i]_vars
    /\ [](Scanned /\ scan.returned = "false" => ~complete)

\* '["]"]' minus its final bracket is scanned and found incomplete: the
\* quoted closer does not close the group
C6_Witness ==
    /\ Scanned
    /\ expression = <<"[", "\"", "]", "\"">>
    /\ expression \in CutTexts
    /\ ~complete

MaxRangeDocLen == 4

\* largest line index and column handed to calculateErrorRange
MaxRangeIndex == 3

\* documents of one-letter lines: every split of up to MaxRangeDocLen
\* characters into lines
RangeDocuments == TextsUpTo({"a", NL}, MaxRangeDocLen)

\* the start of a selection
SelectionStarts ==
    {[present |-> TRUE, line |-> l, character |-> c] : l \in 0..1, c \in 0..1}

\* lineIndex is a line of the resolved location and never negative
\* (startLineIndex + i); the columns are arbitrary
RangeArguments ==
    [lineIndex : 0..MaxRangeIndex,
     startPos : (-1)..MaxRangeIndex,
     endPos : (-1)..MaxRangeIndex,
     offset : {NoOffset} \cup SelectionStarts]

InitRange ==
    /\ pc = "range"
    /\ IdleTyping
    /\ document \in RangeDocuments
    /\ maxProblems = DefaultMaxProblems
    /\ rangeArgs \in RangeArguments
    /\ range = NoLocation
    /\ IdleSpan /\ IdleError /\ IdlePass /\ IdleScan
    /\ IdleSession /\ IdlePlay /\ IdleImport

\* calculateErrorRange(document, lineIndex, startPos, endPos, offset)
CalculateRange ==
    /\ pc = "range"
    /\ range' = calculateErrorRange(split(document), rangeArgs.lineIndex,
                                    rangeArgs.startPos, rangeArgs.endPos,
                                    rangeArgs.offset)
    /\ pc' = "ranged"
    /\ UNCHANGED <<typingVars, sessionVars, playVars, importVars,
                   rangeArgs, docVars, spanVars, errorVars, passVars, scanVars>>

\* calculateErrorRange applied to the range it returned, without offset
ReapplyRange ==
    /\ pc = "ranged"
    /\ rangeArgs' = [lineIndex |-> range.line, startPos |-> range.startChar,
                     endPos |-> range.endChar, offset |-> NoOffset]
    /\ range' = calculateErrorRange(split(document), range.line,
                                    range.startChar, range.endChar, NoOffset)
    /\ pc' = "reapplied"
    /\ UNCHANGED <<typingVars, sessionVars, playVars, importVars,
                   docVars, spanVars, errorVars, passVars, scanVars>>

NextRange == CalculateRange \/ ReapplyRange

SpecRange == InitRange /\ [][NextRange]_vars

\* r lies inside the document text doc
InsideDocument(r, doc) ==
    /\ 0 <= r.line
    /\ r.line <= Len(split(doc)) - 1
    /\ 0 <= r.startChar
    /\ r.startChar <= r.endChar
    /\ r.endChar <= Len(split(doc)[r.line + 1])

C9_ClampIdempotent ==
    pc = "reapplied"
    => range = [line |-> rangeArgs.lineIndex, startChar |-> rangeArgs.startPos,
                endChar |-> rangeArgs.endPos]

\* the first result was pulled back from the end of a non-empty line
C9_Witness ==
    /\ pc = "reapplied"
    /\ range.endChar = Len(split(document)[range.line + 1])
    /\ range.startChar = range.endChar - 1
    /\ range = [line |-> rangeArgs.lineIndex, startChar |-> rangeArgs.startPos,
                endChar |-> rangeArgs.endPos]

\* the line and the columns calculateErrorRange works on once the selection
\* start has been applied: the selection's line is added to every line, its
\* column to the columns of the first line of the selected text only
SelectionLine == rangeArgs.offset.line + rangeArgs.lineIndex

SelectionShift ==
    IF rangeArgs.lineIndex = 0 THEN rangeArgs.offset.character ELSE 0

\* the document line the range is built on, and its length
RangeLineLength == Len(split(document)[range.line + 1])

\* C19: with a selection start, the range's document line is the selection's
\* start line plus the resolved line (kept inside the document), and the
\* selection's start column is added to startChar and endChar exactly when
\* the resolved line is the first line of the selected text; on every later
\* line the columns are used unchanged.
C19_SelectionOffset ==
    (pc = "ranged" /\ rangeArgs.offset.present)
    => /\ range.line = Min(SelectionLine, Len(split(document)) - 1)
       /\ (/\ SelectionLine <= Len(split(document)) - 1
           /\ 0 <= rangeArgs.startPos
           /\ rangeArgs.startPos < rangeArgs.endPos
           /\ rangeArgs.endPos + SelectionShift <= RangeLineLength)
          => /\ range.startChar = rangeArgs.startPos + SelectionShift
             /\ range.endChar = rangeArgs.endPos + SelectionShift
       /\ range = calculateErrorRange(split(document), SelectionLine,
                                      rangeArgs.startPos + SelectionShift,
                                      rangeArgs.endPos + SelectionShift,
                                      NoOffset)

\* a selection starting at column 1 and an error on the second line of the
\* selected text: the columns are those of the resolved location
C19_Witness ==
    /\ pc = "ranged"
    /\ rangeArgs.offset.present
    /\ rangeArgs.offset.character = 1
    /\ rangeArgs.lineIndex = 1
    /\ rangeArgs.startPos = 0
    /\ rangeArgs.endPos = 1
    /\ range = [line |-> rangeArgs.offset.line + 1, startChar |-> 0,
                endChar |-> 1]

\* the start column after the selection shift and the clamp to [0, len]
ClampedStart ==
    LET shift == IF rangeArgs.offset.present THEN SelectionShift ELSE 0
    IN  Max(0, Min(rangeArgs.startPos + shift, RangeLineLength))

\* C20: when after clamping startChar equals the line length len and
\* len > 0, the range is startChar = len - 1, endChar = len; when len = 0
\* it is startChar = endChar = 0.
C20_PastEndAndEmptyLine ==
    pc = "ranged"
    => /\ (ClampedStart = RangeLineLength /\ RangeLineLength > 0)
          => /\ range.startChar = RangeLineLength - 1
             /\ range.endChar = RangeLineLength
       /\ RangeLineLength = 0
          => range.startChar = 0 /\ range.endChar = 0

\* a start column past the end of a one-letter line
C20_Witness ==
    /\ pc = "ranged"
    /\ RangeLineLength = 1
    /\ rangeArgs.startPos = 3
    /\ ~rangeArgs.offset.present
    /\ range.startChar = 0
    /\ range.endChar = 1

(***************************************************************************)
(* Scenario "validate": validateDocument on a .jsonata document; the       *)
(* external compiler accepts or rejects each span                          *)
(***************************************************************************)
ValidateDocuments == ExampleDocuments

InitValidate ==
    /\ pc = "open"
    /\ IdleTyping
    /\ document \in ValidateDocuments
    /\ maxProblems = DefaultMaxProblems
    /\ IdleSpan /\ IdleError /\ IdlePass /\ IdleScan /\ IdleRange
    /\ IdleSession /\ IdlePlay /\ IdleImport

\* validateJsonataText up to its loop
ValidateStart ==
    /\ pc = "open"
    /\ expressions' = extractJsonataExpressionsFromPureJsonata(document)
    /\ exprIndex' = 0
    /\ diagnostics' = <<>>
    /\ pc' = "loop"
    /\ UNCHANGED <<typingVars, sessionVars, playVars, importVars,
                   docVars, expression, startLineIndex, expressionStartPos,
                   errorVars, collection, scanVars, rangeVars>>

\* `if (diagnostics.length >= maxProblems) break` and the end of the for-of
LoopRuns == exprIndex < Len(expressions) /\ Len(diagnostics) < maxProblems

\* the next span is handed to validateSingleJsonataExpression
TakeSpan ==
    /\ exprIndex' = exprIndex + 1
    /\ expression' = expressions[exprIndex + 1].expression
    /\ startLineIndex' = expressions[exprIndex + 1].line
    /\ expressionStartPos' = expressions[exprIndex + 1].startPos
    /\ UNCHANGED expressions

\* one loop iteration: jsonata(expression) returns
CompileSucceeds ==
    /\ pc = "loop"
    /\ LoopRuns
    /\ TakeSpan
    /\ error' = NoError
    /\ location' = NoLocation
    /\ UNCHANGED <<typingVars, sessionVars, playVars, importVars,
                   pc, docVars, passVars, scanVars, rangeVars>>

\* one loop iteration: jsonata(expression) throws and the diagnostic is built
CompileFails ==
    /\ pc = "loop"
    /\ LoopRuns
    /\ TakeSpan
    /\ \E err \in CompilerErrors(expression') :
          /\ error' = err
          /\ location' = calculateErrorLocation(expression', err, startLineIndex',
                                                expressionStartPos')
          /\ diagnostics' =
                Append(diagnostics,
                       createDiagnosticFromJsonataError(
                           err, expression', document, startLineIndex',
                           expressionStartPos', NoOffset))
    /\ UNCHANGED <<typingVars, sessionVars, playVars, importVars,
                   pc, docVars, collection, scanVars, rangeVars>>

\* the loop has ended: validateDocument stores the diagnostics
Publish ==
    /\ pc = "loop"
    /\ ~LoopRuns
    /\ collection' = diagnostics
    /\ pc' = "done"
    /\ UNCHANGED <<typingVars, sessionVars, playVars, importVars,
                   docVars, spanVars, errorVars, diagnostics, scanVars, rangeVars>>

NextValidate == ValidateStart \/ CompileSucceeds \/ CompileFails \/ Publish

SpecValidate == InitValidate /\ [][NextValidate]_vars

\* offset of the closing brace, the last character of the document
ClosingBraceOffset == Len(TrailingCommaDocument) - 1

\* C1: the four-line trailing-comma document is extracted as one multi-line
\* span starting at line 0, column 0; when the compiler rejects it with
\* token '}' at the closing brace, validation produces exactly one
\* diagnostic, on line 2, covering the comma after ')', one character wide.
C1_TrailingCommaEndToEnd ==
    document = TrailingCommaDocument
    => /\ pc # "open"
          => /\ Len(expressions) = 1
             /\ expressions[1].expression = TrailingCommaDocument
             /\ expressions[1].line = 0
             /\ expressions[1].startPos = 0
       /\ (pc = "done" /\ error.hasPosition
             /\ error.position = ClosingBraceOffset /\ error.token = <<"}">>)
          => /\ Len(collection) = 1
             /\ collection[1].range.line = 2
             /\ collection[1].range.endChar = collection[1].range.startChar + 1
             /\ split(document)[3][collection[1].range.startChar + 1] = ","
             /\ split(document)[3][collection[1].range.startChar] = ")"

C1_Witness ==
    /\ pc = "done"
    /\ document = TrailingCommaDocument
    /\ error = [hasPosition |-> TRUE, position |-> ClosingBraceOffset,
                token |-> <<"}">>]
    /\ collection = <<[range |-> [line |-> 2, startChar |-> 24, endChar |-> 25],
                       severity |-> "Error"]>>

(***************************************************************************)
(* ValidationService.validateDocument and validateJsonataText as whole     *)
(* calls.  jsonata(text) is a function of the text: `compiler` maps each   *)
(* expression text to what the call does.                                  *)
(***************************************************************************)
\* '.jsonata'
JsonataExtension == <<".", "j", "s", "o", "n", "a", "t", "a">>

\* ValidationService.isJsonataFile
isJsonataFile(id, name) == id = "jsonata" \/ endsWith(name, JsonataExtension)

\* `[a-zA-Z_]`
IdentifierStart ==
    {"a", "b", "c", "d", "e", "f", "g", "h", "i", "j", "k", "l", "m", "n",
     "o", "p", "q", "r", "s", "t", "u", "v", "w", "x", "y", "z",
     "A", "B", "C", "D", "E", "F", "G", "H", "I", "J", "K", "L", "M", "N",
     "O", "P", "Q", "R", "S", "T", "U", "V", "W", "X", "Y", "Z", "_"}

\* text.includes(sub)
includes(text, sub) == indexOfString(text, sub) >= 0

\* containsJsonataExpression: one of the six patterns occurs in text
containsJsonataExpression(text) ==
    \/ \E k \in 1..(Len(text) - 1) :
          text[k] = "$" /\ text[k + 1] \in IdentifierStart
    \/ includes(text, <<"*", ".">>)
    \/ includes(text, <<"[", "?", "]">>)
    \/ \E k \in 1..Len(text), m \in 1..Len(text) :
          /\ k + 2 <= m
          /\ SubSeq(text, k, k + 1) = <<"{", "%">>
          /\ SubSeq(text, m, m + 1) = <<"%", "}">>
          /\ \A j \in k..m : text[j] # NL
    \/ includes(text, <<"~", ">">>)
    \/ includes(text, <<"|">>)

\* the body `[^"\\]*(\\.[^"\\]*)*` read from index j on: the index of the
\* closing quote, 0 when the line ends first
RECURSIVE closingQuote(_, _)
closingQuote(line, j) ==
    IF j > Len(line) THEN 0
    ELSE IF line[j] = "\"" THEN j
    ELSE IF line[j] = "\\"
         THEN IF j + 1 <= Len(line) /\ line[j + 1] # NL
              THEN closingQuote(line, j + 2)
              ELSE 0
    ELSE closingQuote(line, j + 1)

\* the `while ((match = stringRegex.exec(line)) !== null)` loop, searching
\* from index from on
RECURSIVE matchStrings(_, _)
matchStrings(line, from) ==
    IF from > Len(line) THEN <<>>
    ELSE IF line[from] # "\"" THEN matchStrings(line, from + 1)
    ELSE LET close == closingQuote(line, from + 1)
         IN  IF close = 0 THEN matchStrings(line, from + 1)
             ELSE LET stringContent == SubSeq(line, from + 1, close - 1)
                      rest == matchStrings(line, close + 1)
                  IN  IF containsJsonataExpression(stringContent)
                      THEN <<[expression |-> stringContent,
                              startPos |-> from, endPos |-> close - 1]>>
                           \o rest
                      ELSE rest

\* extractJsonataExpressionsFromLine
extractJsonataExpressionsFromLine(line) == matchStrings(line, 1)

\* validateSingleJsonataExpression: no diagnostic, or the one of the error
\* jsonata(expression) throws
validateSingleJsonataExpression(span, doc, oracle, offset) ==
    IF trim(span.expression) = <<>> THEN <<>>
    ELSE IF oracle[span.expression].throws
    THEN <<createDiagnosticFromJsonataError(
              oracle[span.expression].error, span.expression, doc,
              span.line, span.startPos, offset)>>
    ELSE <<>>

\* variant: the loop stops one diagnostic late
ceilingReached_OneLate(found, max) == Len(found) > max

\* `if (diagnostics.length >= maxProblems) break`
ceilingReached(found, max) == Len(found) >= max

\* the for-of loop of validateJsonataText from span k on
RECURSIVE validateSpans(_, _, _, _, _, _, _)
validateSpans(spans, k, found, doc, max, oracle, offset) ==
    IF k > Len(spans) \/ ceilingReached(found, max) THEN found
    ELSE validateSpans(spans, k + 1,
                       found \o validateSingleJsonataExpression(
                                   spans[k], doc, oracle, offset),
                       doc, max, oracle, offset)

\* validateJsonataText(text, document, offset)
validateJsonataText(text, doc, id, name, max, oracle, offset) ==
    IF ~isJsonataFile(id, name) THEN <<>>
    ELSE validateSpans(extractJsonataExpressionsFromPureJsonata(text), 1,
                       <<>>, doc, max, oracle, offset)

\* variant: entries of an earlier validation stay in the collection
setDiagnostics_KeepOld(stored, found) == IF stored # <<>> THEN stored ELSE found

\* `diagnosticCollection.set(document.uri, diagnostics)`
setDiagnostics(stored, found) == found

(***************************************************************************)
(* Scenario "session": a document is edited and validated again and again  *)
(***************************************************************************)
\* most lines of a session document
MaxSessionLines == 2

\* largest ceiling tried besides the default
MaxCeiling == 2

\* 'd.json'
JsonFileName == <<"d", ".", "j", "s", "o", "n">>

\* lines of a .jsonata document: the expressions 'a' and 'b' (indented)
JsonataLines == {<<"a">>, <<" ", "b">>, <<>>}

\* lines of a JSON document: '"|"' holds an expression, '"a"' does not
JsonLines == {<<"\"", "|", "\"">>, <<"\"", "a", "\"">>, <<>>}

\* the lines joined by line breaks
RECURSIVE join(_)
join(lines) ==
    IF Len(lines) = 0 THEN <<>>
    ELSE IF Len(lines) = 1 THEN lines[1]
    ELSE lines[1] \o <<NL>> \o join(Tail(lines))

DocumentsOf(lines) ==
    {join(ls) : ls \in UNION {[1..n -> lines] : n \in 1..MaxSessionLines}}

\* language, file name and texts of the documents of the session
DocumentKinds ==
    {[languageId |-> "jsonata", fileName |-> JsonataFileName],
     [languageId |-> "plaintext", fileName |-> JsonataFileName],
     [languageId |-> "json", fileName |-> JsonFileName]}

SessionDocuments(id) ==
    IF id = "json" THEN DocumentsOf(JsonLines) ELSE DocumentsOf(JsonataLines)

\* the expression texts of the session's documents
SessionExpressions(id) ==
    IF id = "json" THEN {<<"|">>} ELSE {<<"a">>, <<"b">>}

\* what jsonata(text) may do: return, or throw an error with or without a
\* position
Throws(err) == [throws |-> TRUE, error |-> err]

Outcomes ==
    {Returns,
     Throws([hasPosition |-> TRUE, position |-> 0, token |-> <<>>]),
     Throws([hasPosition |-> FALSE, position |-> 0, token |-> EndToken])}

InitSession ==
    /\ pc = "opened"
    /\ IdleTyping
    /\ \E kind \in DocumentKinds :
          /\ languageId = kind.languageId
          /\ fileName = kind.fileName
    /\ document \in SessionDocuments(languageId)
    /\ maxProblems \in 0..MaxCeiling \cup {DefaultMaxProblems}
    /\ compiler \in [SessionExpressions(languageId) -> Outcomes]
    /\ validatedText = NotValidated
    /\ IdleSpan /\ IdleError /\ IdlePass /\ IdleScan /\ IdleRange
    /\ IdlePlay /\ IdleImport

\* the user changes the text of the document
EditDocument ==
    /\ \E text \in SessionDocuments(languageId) :
          /\ text # document
          /\ document' = text
    /\ pc' = "edited"
    /\ UNCHANGED <<typingVars, maxProblems, spanVars, errorVars, passVars, scanVars,
                   rangeVars, sessionVars, playVars, importVars>>

\* ValidationService.validateDocument(document)
ValidateDocument ==
    /\ IF ~isJsonataFile(languageId, fileName)
       THEN /\ collection' = setDiagnostics(collection, <<>>)
            /\ UNCHANGED diagnostics
       ELSE /\ diagnostics' = validateJsonataText(document, document, languageId,
                                                  fileName, maxProblems,
                                                  compiler, NoOffset)
            /\ collection' = setDiagnostics(collection, diagnostics')
    /\ validatedText' = document
    /\ pc' = IF validatedText = NotValidated THEN "validated" ELSE "revalidated"
    /\ UNCHANGED <<typingVars, docVars, spanVars, errorVars, scanVars, rangeVars,
                   languageId, fileName, compiler, playVars, importVars>>

NextSession == EditDocument \/ ValidateDocument

SpecSession == InitSession /\ [][NextSession]_vars

\* validateDocument has just returned
Validated == pc \in {"validated", "revalidated"}

\* the spans of a .jsonata text that the compiler rejects, in document order
SpanFails(span) == compiler[span.expression].throws

FailingSpans(text) ==
    SelectSeq(extractJsonataExpressionsFromPureJsonata(text), SpanFails)

\* the diagnostic of a rejected span of text
DiagnosticOf(span, text) ==
    createDiagnosticFromJsonataError(compiler[span.expression].error,
                                     span.expression, text, span.line,
                                     span.startPos, NoOffset)

\* found holds one diagnostic for each of the first min(max, F) rejected
\* spans of text, in order, and nothing else
OnePerFailingSpan(found, text, max) ==
    LET failing == FailingSpans(text)
        n == Min(max, Len(failing))
    IN  /\ Len(found) = n
        /\ \A k \in 1..n :
              /\ found[k] = DiagnosticOf(failing[k], text)
              /\ found[k].range.line = failing[k].line

\* C11: a validation pass returns exactly one diagnostic for each of the
\* first min(maxProblems, F) spans that fail to compile, in document order,
\* never more than maxProblems, none for spans that compile; a failing span
\* does not stop later spans from being checked below the ceiling.
C11_CeilingAndContinuation ==
    (Validated /\ isJsonataFile(languageId, fileName))
    => /\ OnePerFailingSpan(diagnostics, document, maxProblems)
       /\ Len(diagnostics) <= maxProblems
       /\ FailingSpans(document) = <<>> => diagnostics = <<>>
       /\ Len(FailingSpans(document)) <= maxProblems
          => Len(diagnostics) = Len(FailingSpans(document))

\* two rejected spans and a ceiling of one: only the first is reported
C11_Witness ==
    /\ Validated
    /\ document = <<"a", NL, " ", "b">>
    /\ compiler[<<"a">>].throws /\ compiler[<<"b">>].throws
    /\ maxProblems = 1
    /\ Len(diagnostics) = 1
    /\ diagnostics[1].range.line = 0

\* C12: after any sequence of edits and validateDocument calls the stored
\* diagnostics are exactly those of the most recent validation of the text:
\* none when every expression compiles, at least one, of severity Error,
\* when one fails (and the ceiling admits one); nothing of an earlier
\* validation remains.
C12_FullReplacement ==
    (validatedText # NotValidated /\ isJsonataFile(languageId, fileName))
    => LET failing == FailingSpans(validatedText)
       IN  /\ OnePerFailingSpan(collection, validatedText, maxProblems)
           /\ failing = <<>> => collection = <<>>
           /\ (failing # <<>> /\ maxProblems >= 1)
              => /\ Len(collection) >= 1
                 /\ \A k \in 1..Len(collection) : collection[k].severity = "Error"

\* a second validation, after an edit that removed the rejected expression,
\* leaves the collection empty
C12_Witness ==
    /\ pc = "revalidated"
    /\ compiler[<<"a">>].throws
    /\ ~compiler[<<"b">>].throws
    /\ maxProblems = DefaultMaxProblems
    /\ document = <<" ", "b">>
    /\ collection = <<>>

\* the expressions embedded in the quoted strings of a JSON text, line by
\* line
RECURSIVE EmbeddedFrom(_, _)
EmbeddedFrom(lines, k) ==
    IF k > Len(lines) THEN <<>>
    ELSE extractJsonataExpressionsFromLine(lines[k]) \o EmbeddedFrom(lines, k + 1)

EmbeddedExpressions(text) == EmbeddedFrom(split(text), 1)

\* C13: validating a JSON document extracts the expressions embedded in its
\* quoted string values and reports a diagnostic for each extracted
\* expression that fails to compile.
C13_JsonDocuments ==
    (Validated /\ languageId = "json")
    => Len(collection)
         = Min(maxProblems,
               Len(SelectSeq(EmbeddedExpressions(document), SpanFails)))

(***************************************************************************)
(* PlaygroundWebviewManager: evaluateExpression and the error details      *)
(***************************************************************************)
\* the `for` loop of createDetailedErrorInfo from line i on
RECURSIVE detailLine(_, _, _, _)
detailLine(lines, position, i, currentPosition) ==
    IF i >= Len(lines) THEN [line |-> 0, character |-> 0]
    ELSE IF position <= currentPosition + Len(lines[i + 1])
         THEN [line |-> i, character |-> position - currentPosition]
         ELSE detailLine(lines, position, i + 1,
                         currentPosition + Len(lines[i + 1]) + 1)

\* createDetailedErrorInfo(error, type), reading state.jsonataExpression
createDetailedErrorInfo(err, type, jsonataExpression) ==
    LET at == detailLine(split(jsonataExpression), err.position, 0, 0)
    IN  [type |-> type,
         hasPosition |-> err.hasPosition,
         position |-> IF err.hasPosition THEN err.position ELSE 0,
         token |-> err.token,
         hasLine |-> err.hasPosition,
         line |-> IF err.hasPosition THEN at.line ELSE 0,
         character |-> IF err.hasPosition THEN at.character ELSE 0]

\* the errorDetails of a JSON input that does not parse
JsonParseDetails ==
    [type |-> "json-parse", hasPosition |-> FALSE, position |-> 0,
     token |-> <<>>, hasLine |-> FALSE, line |-> 0, character |-> 0]

\* end column of createDiagnosticFromError
detailEnd(errorDetails) ==
    IF errorDetails.token # <<>> /\ errorDetails.token # EndToken
    THEN errorDetails.character + Len(errorDetails.token)
    ELSE errorDetails.character + 1

\* createDiagnosticFromError(errorDetails), for details with line and character
createDiagnosticFromError(errorDetails) ==
    [range |-> [line |-> errorDetails.line,
                startChar |-> errorDetails.character,
                endChar |-> detailEnd(errorDetails)],
     severity |-> IF errorDetails.type = "compilation" THEN "Error"
                  ELSE "Warning"]

\* the editor createTemplateDiagnostics puts the diagnostic on: the selected
\* template editor, else the playground's own untitled editor
templateTarget(st) ==
    IF st.selectedTemplateEditor # "null" THEN st.selectedTemplateEditor
    ELSE "untitled"

\* playgroundDiagnosticCollection after createTemplateDiagnostics
createTemplateDiagnostics(st, errorDetails) ==
    IF ~errorDetails.hasLine THEN {}
    ELSE {[uri |-> templateTarget(st),
           diagnostic |-> createDiagnosticFromError(errorDetails)]}

\* `JSON.stringify(result, null, 2)` for the values an evaluation returns
stringify(value) ==
    IF value = "1" THEN <<"1">>
    ELSE IF value = "[7,13]"
    THEN <<"[", NL, " ", " ", "7", ",", NL, " ", " ", "1", "3", NL, "]">>
    ELSE <<"undefined">>

\* variant: a JSON input that does not parse is reported after the compile
\* error
failsFirst_Compile(ev) ==
    IF ev.compile.throws THEN "compilation"
    ELSE IF ~ev.parses THEN "json-parse" ELSE "none"

\* what ends evaluateExpression before the evaluation: the JSON input, then
\* the compilation
failsFirst(ev) ==
    IF ~ev.parses THEN "json-parse"
    ELSE IF ev.compile.throws THEN "compilation" ELSE "none"

\* evaluateExpression up to `await expression.evaluate(jsonData)`: the state,
\* the diagnostics, and whether the call is suspended at the await
beginEvaluation(st, ev) ==
    LET reset == [st EXCEPT !.error = "null", !.errorDetails = NoErrorDetails]
        errorDetails ==
            createDetailedErrorInfo(ev.compile.error, "compilation",
                                    st.jsonataExpression)
    IN  IF failsFirst(ev) = "json-parse"
        THEN [state |-> [reset EXCEPT !.error = "Invalid JSON input",
                                      !.errorDetails = JsonParseDetails,
                                      !.result = <<>>],
              diagnostics |-> {}, suspended |-> FALSE]
        ELSE IF failsFirst(ev) = "compilation"
        THEN [state |-> [reset EXCEPT !.error = "JSONata compilation error",
                                      !.errorDetails = errorDetails,
                                      !.result = <<>>],
              diagnostics |-> createTemplateDiagnostics(st, errorDetails),
              suspended |-> FALSE]
        ELSE [state |-> reset, diagnostics |-> {}, suspended |-> TRUE]

\* evaluateExpression after the await: the promise resolved or rejected
finishEvaluation(st, stored, ev) ==
    LET errorDetails ==
            createDetailedErrorInfo(ev.run.error, "runtime",
                                    st.jsonataExpression)
    IN  IF ev.run.throws
        THEN [state |-> [st EXCEPT !.error = "JSONata runtime error",
                                   !.errorDetails = errorDetails,
                                   !.result = <<>>],
              diagnostics |-> createTemplateDiagnostics(st, errorDetails)]
        ELSE [state |-> [st EXCEPT !.result = stringify(ev.value)],
              diagnostics |-> stored]

(***************************************************************************)
(* Scenario "playground": editors are selected as sources and edited; each *)
(* handler runs to its end or to the await of evaluateExpression, and the  *)
(* rest of a suspended evaluation runs before the next event is handled    *)
(***************************************************************************)
\* largest error offset the compiler and the evaluation report
MaxErrorOffset == 5

\* the open editor documents
EditorIds == {"A", "B"}

\* '[1,\n]': an array with a trailing comma
ArrayTrailingComma == <<"[", "1", ",", NL, "]">>

\* texts of the editor documents
PlayTexts == {<<"1">>, ArrayTrailingComma}

Digits == {"0", "1", "2", "3", "4", "5", "6", "7", "8", "9"}

\* JSON.parse(text) returns, for the texts of the scenario: a number, an
\* empty object or array and the default input parse, '[1,\n]' does not
JSONparses(text) ==
    LET t == trim(text)
    IN  \/ t # <<>> /\ \A k \in 1..Len(t) : t[k] \in Digits
        \/ t \in {<<"{", "}">>, <<"[", "]">>}
        \/ text = DefaultJsonInput

\* tokens of the errors that carry a position
PlayTokens == {<<"]">>, EndToken}

\* errors jsonata(text) and expression.evaluate may throw
PlayErrors(expr) ==
    {[hasPosition |-> FALSE, position |-> 0, token |-> <<>>]}
    \cup {[hasPosition |-> TRUE, position |-> p, token |-> t] :
            p \in 0..Min(Len(expr) + 1, MaxErrorOffset), t \in PlayTokens}

\* values an evaluation may return
Values == {"undefined", "1", "[7,13]"}

\* what JSON.parse, jsonata and evaluate do when the fields of st are
\* evaluated
Evaluations(st) ==
    LET of(c, r, v) ==
            [jsonInput |-> st.jsonInput,
             jsonataExpression |-> st.jsonataExpression,
             parses |-> JSONparses(st.jsonInput),
             compile |-> c, run |-> r, value |-> v]
        errors == PlayErrors(st.jsonataExpression)
    IN  {of(Throws(e), Returns, "undefined") : e \in errors}
        \cup {of(Returns, Throws(e), "undefined") : e \in errors}
        \cup {of(Returns, Returns, v) : v \in Values}

InitPlayground ==
    /\ pc = "constructed"
    /\ IdleTyping
    /\ state = InitialState
    /\ editors \in [EditorIds -> PlayTexts]
    /\ playgroundDiagnostics = {}
    /\ pending = <<NoEvaluation>>
    /\ evaluation = NoEvaluation
    /\ document = <<>>
    /\ maxProblems = DefaultMaxProblems
    /\ IdleSpan /\ IdleError /\ IdlePass /\ IdleScan /\ IdleRange
    /\ IdleSession
    /\ session = NoSession /\ answers = NoAnswers /\ returned = "none"
    /\ currentPanel = "open"

\* `this.evaluateExpression()` on the fields of st, up to its end or its await
StartEvaluation(st) ==
    \E ev \in Evaluations(st) :
       LET begun == beginEvaluation(st, ev)
       IN  /\ state' = begun.state
           /\ playgroundDiagnostics' = begun.diagnostics
           /\ evaluation' = ev
           /\ pending' = IF begun.suspended THEN Append(pending, ev) ELSE pending

\* selectJsonInputEditor(editorId)
SelectJsonInputEditor ==
    /\ pending = <<>>
    /\ \E editorId \in EditorIds \cup {"null"} :
          LET selected == [state EXCEPT !.selectedJsonInputEditor = editorId]
          IN  IF editorId # "null"
              THEN StartEvaluation([selected EXCEPT !.jsonInput = editors[editorId]])
              ELSE /\ state' = selected
                   /\ UNCHANGED <<playgroundDiagnostics, pending, evaluation>>
    /\ pc' = "selected"
    /\ UNCHANGED <<typingVars, editors, docVars, spanVars, errorVars, passVars, scanVars,
                   rangeVars, sessionVars, importVars>>

\* selectTemplateEditor(editorId)
SelectTemplateEditor ==
    /\ pending = <<>>
    /\ \E editorId \in EditorIds \cup {"null"} :
          LET selected == [state EXCEPT !.selectedTemplateEditor = editorId]
          IN  IF editorId # "null"
              THEN StartEvaluation([selected EXCEPT
                                       !.jsonataExpression = editors[editorId]])
              ELSE /\ state' = selected
                   /\ playgroundDiagnostics' = {}
                   /\ UNCHANGED <<pending, evaluation>>
    /\ pc' = "selected"
    /\ UNCHANGED <<typingVars, editors, docVars, spanVars, errorVars, passVars, scanVars,
                   rangeVars, sessionVars, importVars>>

\* the onDidChangeTextDocument listener of setupDocumentChangeListeners
ChangeDocument ==
    /\ pending = <<>>
    /\ \E documentUri \in EditorIds, text \in PlayTexts :
          /\ text # editors[documentUri]
          /\ editors' = [editors EXCEPT ![documentUri] = text]
          /\ IF state.selectedJsonInputEditor = documentUri
             THEN StartEvaluation([state EXCEPT !.jsonInput = text])
             ELSE IF state.selectedTemplateEditor = documentUri
             THEN StartEvaluation([state EXCEPT !.jsonataExpression = text])
             ELSE UNCHANGED <<state, playgroundDiagnostics, pending, evaluation>>
    /\ pc' = "changed"
    /\ UNCHANGED <<typingVars, docVars, spanVars, errorVars, passVars, scanVars,
                   rangeVars, sessionVars, importVars>>

\* the promise of `expression.evaluate(jsonData)` settles and the oldest
\* suspended evaluateExpression runs to its end
FinishEvaluation ==
    /\ pending # <<>>
    /\ LET done == finishEvaluation(state, playgroundDiagnostics, Head(pending))
       IN  /\ state' = done.state
           /\ playgroundDiagnostics' = done.diagnostics
    /\ pending' = Tail(pending)
    /\ UNCHANGED <<typingVars, pc, editors, evaluation, docVars, spanVars, errorVars,
                   passVars, scanVars, rangeVars, sessionVars, importVars>>

NextPlayground ==
    \/ SelectJsonInputEditor
    \/ SelectTemplateEditor
    \/ ChangeDocument
    \/ FinishEvaluation

SpecPlayground == InitPlayground /\ [][NextPlayground]_vars

\* every started evaluateExpression has run to its end
Settled == pending = <<>>

\* C14: one evaluation produces exactly one outcome, decided in this order:
\* if the JSON input does not parse, a 'json-parse' error with no line and
\* character and no editor diagnostic, whatever the compiler would have said
\* of the expression; else if compilation fails, a 'compilation' error; else
\* if evaluation throws, a 'runtime' error; else no error and the result is
\* the evaluated value.
C14_ErrorClassification ==
    Settled =>
       /\ state.jsonInput = evaluation.jsonInput
       /\ state.jsonataExpression = evaluation.jsonataExpression
       /\ IF ~evaluation.parses
          THEN /\ state.errorDetails = JsonParseDetails
               /\ ~state.errorDetails.hasLine
               /\ playgroundDiagnostics = {}
               /\ state.error = "Invalid JSON input"
               /\ state.result = <<>>
          ELSE IF evaluation.compile.throws
          THEN /\ state.errorDetails =
                     createDetailedErrorInfo(evaluation.compile.error,
                                             "compilation",
                                             evaluation.jsonataExpression)
               /\ state.error # "null"
               /\ state.result = <<>>
          ELSE IF evaluation.run.throws
          THEN /\ state.errorDetails =
                     createDetailedErrorInfo(evaluation.run.error, "runtime",
                                             evaluation.jsonataExpression)
               /\ state.error # "null"
               /\ state.result = <<>>
          ELSE /\ state.errorDetails = NoErrorDetails
               /\ state.error = "null"
               /\ state.result = stringify(evaluation.value)

\* an edit made the JSON input unparsable while the expression does not
\* compile either, and the evaluation ended as a 'json-parse' error
C14_Witness ==
    /\ Settled
    /\ pc = "changed"
    /\ ~evaluation.parses
    /\ evaluation.compile.throws
    /\ state.errorDetails.type = "json-parse"

\* C15: whenever a document selected as JSON input source or as JSONata
\* template source changes, the corresponding playground field is set to the
\* document's new text and the fields evaluated are the new ones, for every
\* selection configuration, including the same document selected for both
\* roles.
C15_LiveUpdate ==
    [][\A documentUri \in EditorIds :
          editors'[documentUri] # editors[documentUri] =>
             /\ state.selectedJsonInputEditor = documentUri =>
                   /\ state'.jsonInput = editors'[documentUri]
                   /\ evaluation'.jsonInput = editors'[documentUri]
             /\ state.selectedTemplateEditor = documentUri =>
                   /\ state'.jsonataExpression = editors'[documentUri]
                   /\ evaluation'.jsonataExpression = editors'[documentUri]]_vars

\* the same live update, for the configurations in which no document is
\* selected for both roles
LiveUpdateOfDistinctSelections ==
    [][\A documentUri \in EditorIds :
          /\ editors'[documentUri] # editors[documentUri]
          /\ state.selectedJsonInputEditor # state.selectedTemplateEditor
          =>
             /\ state.selectedJsonInputEditor = documentUri =>
                   /\ state'.jsonInput = editors'[documentUri]
                   /\ evaluation'.jsonInput = editors'[documentUri]
             /\ state.selectedTemplateEditor = documentUri =>
                   /\ state'.jsonataExpression = editors'[documentUri]
                   /\ evaluation'.jsonataExpression = editors'[documentUri]]_vars

\* the error of the details shown, as the compiler or the evaluation threw it
ShownError ==
    [hasPosition |-> state.errorDetails.hasPosition,
     position |-> state.errorDetails.position,
     token |-> state.errorDetails.token]

\* C18: for every playground compile or runtime error that carries a
\* position, the location of the diagnostic placed on the template editor
\* (line, start column, end column) equals what calculateErrorLocation yields
\* for the same expression text and error with startLine 0 and startColumn 0.
C18_ResolverLocations ==
    Settled /\ state.errorDetails.hasPosition =>
       \A placed \in playgroundDiagnostics :
          placed.diagnostic.range =
             calculateErrorLocation(state.jsonataExpression, ShownError, 0, 0)

(***************************************************************************)
(* Scenario "import": one run of ImportService.importSession, from its     *)
(* call to its return, each action one stretch between two awaits          *)
(***************************************************************************)
SHARE_FORMAT_VERSION == "1.0"

\* variant: every session version is taken as compatible
isSessionCompatible_Always(s) == TRUE

\* ShareService.isSessionCompatible(session)
isSessionCompatible(s) == s.version = SHARE_FORMAT_VERSION

\* the `source` argument ("absent" when omitted), whether the clipboard or
\* the file yields a valid session, and the session's version and data
ImportSessions ==
    [source : {"absent", "clipboard", "file", "object"},
     loads : BOOLEAN,
     version : {SHARE_FORMAT_VERSION, "2.0"},
     jsonInput : PlayTexts,
     jsonataExpression : PlayTexts]

\* the state of a playground whose first evaluation has ended
OpenedState == finishEvaluation(InitialState, {}, NoEvaluation).state

InitImport ==
    /\ pc = "called"
    /\ IdleTyping
    /\ session \in ImportSessions
    /\ answers = NoAnswers
    /\ returned = "running"
    /\ currentPanel \in {"open", "none"}
    /\ state = IF currentPanel = "open" THEN OpenedState ELSE InitialState
    /\ editors = <<>>
    /\ playgroundDiagnostics = {}
    /\ pending = <<>>
    /\ evaluation = NoEvaluation
    /\ document = <<>>
    /\ maxProblems = DefaultMaxProblems
    /\ IdleSpan /\ IdleError /\ IdlePass /\ IdleScan /\ IdleRange
    /\ IdleSession

\* `return false` of importSession
ReturnFalse == pc' = "returned" /\ returned' = "false"

\* importSession 19-26: the source is asked for when none was passed
ChooseSource ==
    /\ pc = "called"
    /\ IF session.source = "absent"
       THEN \E importSource \in {"clipboard", "file", "undefined"} :
               /\ answers' = [answers EXCEPT !.pick = importSource]
               /\ IF importSource = "undefined" THEN ReturnFalse
                  ELSE pc' = "loading" /\ UNCHANGED returned
       ELSE pc' = "loading" /\ UNCHANGED <<answers, returned>>
    /\ UNCHANGED <<typingVars, session, currentPanel, docVars, spanVars, errorVars,
                   passVars, scanVars, rangeVars, sessionVars, playVars>>

\* importSession 28-53: the session is loaded and its version checked
LoadSession ==
    /\ pc = "loading"
    /\ IF session.source # "object" /\ ~session.loads THEN ReturnFalse
       ELSE /\ pc' = IF isSessionCompatible(session) THEN "confirming"
                     ELSE "warning"
            /\ UNCHANGED returned
    /\ UNCHANGED <<typingVars, session, answers, currentPanel, docVars, spanVars,
                   errorVars, passVars, scanVars, rangeVars, sessionVars,
                   playVars>>

\* importSession 45-53: the answer to the version warning
AnswerWarning ==
    /\ pc = "warning"
    /\ \E proceed \in {"Yes", "No", "undefined"} :
          /\ answers' = [answers EXCEPT !.proceed = proceed]
          /\ IF proceed # "Yes" THEN ReturnFalse
             ELSE pc' = "confirming" /\ UNCHANGED returned
    /\ UNCHANGED <<typingVars, session, currentPanel, docVars, spanVars, errorVars,
                   passVars, scanVars, rangeVars, sessionVars, playVars>>

\* importSession 55-68 and applySessionToPlayground 117-121: the answer to
\* the confirmation, and the playground fetched or opened
AnswerConfirm ==
    /\ pc = "confirming"
    /\ \E confirmImport \in {"Import", "Cancel", "undefined"} :
          /\ answers' = [answers EXCEPT !.confirm = confirmImport]
          /\ IF confirmImport # "Import"
             THEN /\ ReturnFalse
                  /\ UNCHANGED <<currentPanel, playVars>>
             ELSE IF currentPanel = "none"
             THEN /\ currentPanel' = "open"
                  /\ state' = InitialState
                  /\ playgroundDiagnostics' = {}
                  /\ pending' = <<NoEvaluation>>
                  /\ evaluation' = NoEvaluation
                  /\ pc' = "opening"
                  /\ UNCHANGED <<returned, editors>>
             ELSE /\ pc' = "waiting"
                  /\ UNCHANGED <<returned, currentPanel, playVars>>
    /\ UNCHANGED <<typingVars, session, docVars, spanVars, errorVars, passVars, scanVars,
                   rangeVars, sessionVars>>

\* the user closes the panel while importSession waits for it to initialise
ClosePanel ==
    /\ pc = "opening"
    /\ currentPanel = "open"
    /\ currentPanel' = "none"
    /\ pending' = <<>>
    /\ UNCHANGED <<typingVars, pc, state, editors, playgroundDiagnostics, evaluation,
                   session, answers, returned, docVars, spanVars, errorVars,
                   passVars, scanVars, rangeVars, sessionVars>>

\* applySessionToPlayground 122-131: the playground is fetched again
PlaygroundOpened ==
    /\ pc = "opening"
    /\ IF currentPanel = "none" THEN ReturnFalse
       ELSE pc' = "waiting" /\ UNCHANGED returned
    /\ UNCHANGED <<typingVars, session, answers, currentPanel, docVars, spanVars,
                   errorVars, passVars, scanVars, rangeVars, sessionVars,
                   playVars>>

\* applySessionToPlayground 134: setJsonInput, which is updateJsonInput and
\* one more evaluateExpression
SetJsonInput ==
    /\ pc = "waiting"
    /\ LET updated == [state EXCEPT !.jsonInput = session.jsonInput]
       IN  \E ev \in Evaluations(updated) :
              LET first == beginEvaluation(updated, ev)
                  second == beginEvaluation(first.state, ev)
              IN  /\ state' = second.state
                  /\ playgroundDiagnostics' = second.diagnostics
                  /\ evaluation' = ev
                  /\ pending' = IF second.suspended
                                THEN pending \o <<ev, ev>> ELSE pending
    /\ pc' = "inputSet"
    /\ UNCHANGED <<typingVars, editors, session, answers, returned, currentPanel, docVars,
                   spanVars, errorVars, passVars, scanVars, rangeVars,
                   sessionVars>>

\* applySessionToPlayground 140-151: setJsonataExpression and `return true`
SetJsonataExpression ==
    /\ pc = "inputSet"
    /\ StartEvaluation([state EXCEPT
                           !.jsonataExpression = session.jsonataExpression])
    /\ pc' = "returned"
    /\ returned' = "true"
    /\ UNCHANGED <<typingVars, editors, session, answers, currentPanel, docVars, spanVars,
                   errorVars, passVars, scanVars, rangeVars, sessionVars>>

NextImport ==
    \/ ChooseSource
    \/ LoadSession
    \/ AnswerWarning
    \/ AnswerConfirm
    \/ ClosePanel
    \/ PlaygroundOpened
    \/ SetJsonInput
    \/ SetJsonataExpression
    \/ FinishEvaluation

SpecImport == InitImport /\ [][NextImport]_vars

\* the user agreed to the import: 'Import' in the confirmation prompt and,
\* for a session of another version, 'Yes' to the version warning
Consent ==
    /\ answers.confirm = "Import"
    /\ session.version # "1.0" => answers.proceed = "Yes"

MaxExtractLen == 5

\* characters of the generated documents: an opener, a closer, the first
\* character of a comment, a blank and the line break
ExtractAlphabet == {"(", ")", "/", " ", NL}

\* '$sum(unclosed'
UnclosedExample ==
    <<"$", "s", "u", "m", "(", "u", "n", "c", "l", "o", "s", "e", "d">>

\* '$.products[\n  price > 100\n].name'
MultiLineExample ==
    <<"$", ".", "p", "r", "o", "d", "u", "c", "t", "s", "[", NL,
      " ", " ", "p", "r", "i", "c", "e", " ", ">", " ", "1", "0", "0", NL,
      "]", ".", "n", "a", "m", "e">>

\* '/* c */\n  a(\n b)\n\nc'
BlockCommentExample ==
    <<"/", "*", " ", "c", " ", "*", "/", NL, " ", " ", "a", "(", NL,
      " ", "b", ")", NL, NL, "c">>

\* 'a(]\n\n// c\n()'
MismatchExample ==
    <<"a", "(", "]", NL, NL, "/", "/", " ", "c", NL, "(", ")">>

ExtractDocuments ==
    TextsUpTo(ExtractAlphabet, MaxExtractLen)
    \cup {UnclosedExample, <<" ", " ">> \o UnclosedExample, MultiLineExample,
          BlockCommentExample, MismatchExample}

InitExtract ==
    /\ pc = "text"
    /\ IdleTyping
    /\ document \in ExtractDocuments
    /\ maxProblems = DefaultMaxProblems
    /\ IdleSpan /\ IdleError /\ IdlePass /\ IdleScan /\ IdleRange
    /\ IdleSession /\ IdlePlay /\ IdleImport

\* extractJsonataExpressionsFromPureJsonata(text) returns
ExtractExpressions ==
    /\ pc = "text"
    /\ expressions' = extractJsonataExpressionsFromPureJsonata(document)
    /\ pc' = "extracted"
    /\ UNCHANGED <<typingVars, exprIndex, expression, startLineIndex, expressionStartPos,
                   docVars, errorVars, passVars, scanVars, rangeVars,
                   sessionVars, playVars, importVars, typingVars>>

NextExtract == ExtractExpressions

SpecExtract == InitExtract /\ [][NextExtract]_vars

(***************************************************************************)
(* Properties of the extractor (scenario "extract")                        *)
(***************************************************************************)
Extracted == pc = "extracted"

\* offset of the first character of a line that is not whitespace
FirstInk(line) ==
    CHOOSE k \in 0..(Len(line) - 1) :
       /\ ~IsWhitespace(line[k + 1])
       /\ \A j \in 1..k : IsWhitespace(line[j])

\* the text of a span up to its first line break
FirstLineOf(text) ==
    IF \E k \in 1..Len(text) : text[k] = NL
    THEN SubSeq(text, 1, (CHOOSE k \in 1..Len(text) :
                             text[k] = NL /\ \A j \in 1..(k - 1) : text[j] # NL) - 1)
    ELSE text

\* C21: no span starts on a blank line or on a line whose trimmed text
\* begins with '//' or '/*'; each span's startLine is the index of its first
\* line and startColumn the offset of that line's first non-whitespace
\* character; a line that is complete on its own is emitted as a single-line
\* span whose text is the trimmed line.
C21_SpanStart ==
    Extracted =>
       \A k \in 1..Len(expressions) :
          LET span == expressions[k]
              line == DocLines[span.line + 1]
          IN  /\ span.line \in 0..(Len(DocLines) - 1)
              /\ trim(line) # <<>>
              /\ ~startsWith(trim(line), <<"/", "/">>)
              /\ ~startsWith(trim(line), <<"/", "*">>)
              /\ span.startPos = FirstInk(line)
              /\ FirstLineOf(span.expression) = trim(line)
              /\ isCompleteExpression(trim(line)) => span.expression = trim(line)

\* a comment line is passed over and the next line, indented by one blank and
\* complete on its own, is a span of its own
C21_Witness ==
    /\ Extracted
    /\ Len(DocLines) = 2
    /\ startsWith(DocLines[1], <<"/", "/">>)
    /\ Len(expressions) = 1
    /\ expressions[1].line = 1
    /\ expressions[1].startPos = 1
    /\ expressions[1].expression = trim(DocLines[2])

\* index of the document line on which a span ends
EndLine(span) == span.line + Len(split(span.expression)) - 1

\* the first m lines of a span's text, joined by line breaks
PrefixText(span, m) == join(SubSeq(split(span.expression), 1, m))

\* the lines after line `from` on which a span may start
StartableAfter(from) ==
    {i \in (from + 1)..(Len(DocLines) - 1) : ~isSkippable(trim(DocLines[i + 1]))}

\* C22: when a span's first line is not complete, the span's text is that
\* first line followed by each subsequent document line appended untrimmed
\* and joined by '\n', up to and including the first line at which the
\* accumulated text is complete (or up to the end of the document); the span
\* is emitted at that line and scanning for the next span resumes on the
\* following line.
C22_MultiLineAccumulation ==
    Extracted =>
       \A k \in 1..Len(expressions) :
          LET span == expressions[k]
              spanLines == split(span.expression)
          IN  ~isCompleteExpression(trim(DocLines[span.line + 1])) =>
                 /\ EndLine(span) <= Len(DocLines) - 1
                 /\ spanLines[1] = trim(DocLines[span.line + 1])
                 /\ \A m \in 2..Len(spanLines) :
                       spanLines[m] = DocLines[span.line + m]
                 /\ \A m \in 1..(Len(spanLines) - 1) :
                       ~isCompleteExpression(PrefixText(span, m))
                 /\ \/ isCompleteExpression(span.expression)
                    \/ EndLine(span) = Len(DocLines) - 1
                 /\ IF StartableAfter(EndLine(span)) = {}
                    THEN k = Len(expressions)
                    ELSE /\ k < Len(expressions)
                         /\ expressions[k + 1].line \in StartableAfter(EndLine(span))
                         /\ \A i \in StartableAfter(EndLine(span)) :
                               expressions[k + 1].line <= i

\* 'a(' and ' b)' are accumulated into one span that keeps the blank before
\* 'b', and the line 'c' after the blank line is the next span
C22_Witness ==
    /\ Extracted
    /\ Len(expressions) = 2
    /\ expressions[1].line = 1
    /\ expressions[1].expression = <<"a", "(", NL, " ", "b", ")">>
    /\ expressions[2].line = 4
    /\ expressions[2].expression = <<"c">>

\* the text accumulated from document line i to document line j
Accumulated(i, j) ==
    join(<<trim(DocLines[i + 1])>> \o SubSeq(DocLines, i + 2, j + 1))

\* every span that starts before line i also ends before it
SpansEndBefore(i) ==
    \A k \in 1..Len(expressions) :
       expressions[k].line < i => EndLine(expressions[k]) < i

\* an expression starts on line i and is still in progress when the
\* document ends
InProgressAtEnd(i) ==
    /\ ~isSkippable(trim(DocLines[i + 1]))
    /\ SpansEndBefore(i)
    /\ \A j \in i..(Len(DocLines) - 1) : ~isCompleteExpression(Accumulated(i, j))

\* C23: if the document ends while an expression is still in progress and
\* its accumulated text is non-blank, the extractor emits it as the final
\* span, with its recorded startLine and startColumn.
C23_IncompleteAtEnd ==
    Extracted =>
       \A i \in 0..(Len(DocLines) - 1) :
          InProgressAtEnd(i) =>
             /\ Len(expressions) > 0
             /\ LET final == expressions[Len(expressions)]
                IN  /\ final.expression = Accumulated(i, Len(DocLines) - 1)
                    /\ final.line = i
                    /\ final.startPos = FirstInk(DocLines[i + 1])

\* '$sum(unclosed' after two blanks is never completed and is the only span
\* of its document
C23_Witness ==
    /\ Extracted
    /\ document = <<" ", " ">> \o UnclosedExample
    /\ InProgressAtEnd(0)
    /\ expressions = <<[expression |-> UnclosedExample, line |-> 0,
                        startPos |-> 2, endPos |-> Len(UnclosedExample)]>>

\* the bracket scan of text s ends at a closer that meets an empty stack or
\* a non-matching top
FailsAtCloser(s) == scanFrom(s, ScanStart).returned = "false"

\* C30: if isCompleteExpression(s) is false because of a closer with an
\* empty stack or a non-matching top, then isCompleteExpression(s + t) is
\* false for every t; hence a span whose accumulated text contains such a
\* closer absorbs every remaining document line (blank and comment lines
\* included) up to the end of the document, and no later expression is
\* emitted as a span of its own.
C30_PermanentFailure ==
    /\ \A n \in 0..Len(document) :
          FailsAtCloser(SubSeq(document, 1, n)) =>
             ~isCompleteExpression(document)
    /\ Extracted =>
          \A k \in 1..Len(expressions) :
             \A m \in 1..Len(split(expressions[k].expression)) :
                FailsAtCloser(PrefixText(expressions[k], m)) =>
                   /\ k = Len(expressions)
                   /\ EndLine(expressions[k]) = Len(DocLines) - 1
                   /\ expressions[k].expression =
                         Accumulated(expressions[k].line, Len(DocLines) - 1)

\* 'a(]' fails at its ']' and the blank line, the comment line and the
\* complete line '()' after it all end up in its span
C30_Witness ==
    /\ Extracted
    /\ document = MismatchExample
    /\ FailsAtCloser(trim(DocLines[1]))
    /\ isCompleteExpression(DocLines[4])
    /\ Len(expressions) = 1
    /\ expressions[1].expression = MismatchExample

(***************************************************************************)
(* Further properties of the resolver (scenario "locate")                  *)
(***************************************************************************)
\* C24: when the compiler error's position is not a non-negative number
\* (undefined or negative), the resolver returns line = startLine,
\* startChar = startColumn and endChar = startColumn + length of the first
\* line of the expression text.
C24_DegeneratePosition ==
    (Located /\ (~error.hasPosition \/ error.position < 0))
    => /\ location.line = startLineIndex
       /\ location.startChar = expressionStartPos
       /\ location.endChar = expressionStartPos + Len(FirstLineOf(expression))

\* a negative position on the two-line expression 'a(\nb)' found at column 2:
\* the whole first line, columns 2..4
C24_Witness ==
    /\ Located
    /\ expression = ColumnResetExample
    /\ expressionStartPos = 2
    /\ error.hasPosition /\ error.position = -1
    /\ location = [line |-> startLineIndex, startChar |-> 2, endChar |-> 4]

\* C29: whenever the resolver's result is on the expression's first line
\* (line = startLine), its columns satisfy startColumn <= startChar <=
\* endChar <= startColumn + length of the expression's first line + 1, for
\* every token including the end-of-input sentinel reported at the end of
\* the first line of a multi-line expression.
C29_FirstLineColumnBound ==
    (Located /\ location.line = startLineIndex)
    => /\ expressionStartPos <= location.startChar
       /\ location.startChar <= location.endChar
       /\ location.endChar
            <= expressionStartPos + Len(FirstLineOf(expression)) + 1

\* the same bound for the end-of-input sentinel alone
FirstLineColumnBoundOfSentinel ==
    (Located /\ location.line = startLineIndex /\ error.token = EndToken)
    => /\ expressionStartPos <= location.startChar
       /\ location.startChar <= location.endChar
       /\ location.endChar
            <= expressionStartPos + Len(FirstLineOf(expression)) + 1

\* the same bound for errors without a token, which span one character
FirstLineColumnBoundWithoutToken ==
    (Located /\ location.line = startLineIndex /\ error.token = <<>>)
    => /\ expressionStartPos <= location.startChar
       /\ location.startChar <= location.endChar
       /\ location.endChar
            <= expressionStartPos + Len(FirstLineOf(expression)) + 1

(***************************************************************************)
(* Scenario "typing": the listeners of activate on one open document, with *)
(* the setting validateOnType at its default (true)                        *)
(***************************************************************************)
\* most change events of one burst
MaxBurstEvents == 3

\* isJsonataFile of utils/jsonataUtils, the test of the listeners
utilsIsJsonataFile(id, name, text) ==
    \/ id = "jsonata"
    \/ endsWith(name, JsonataExtension)
    \/ id = "json" /\ containsJsonataExpression(text)

\* what validateDocument stores for the document
validateDocument(stored, text, id, name, max, oracle) ==
    IF ~isJsonataFile(id, name) THEN setDiagnostics(stored, <<>>)
    ELSE setDiagnostics(stored,
                        validateJsonataText(text, text, id, name, max, oracle,
                                            NoOffset))

\* the document has been opened and onDidOpenTextDocument has run
InitTyping ==
    /\ pc = "opened"
    /\ \E kind \in DocumentKinds :
          /\ languageId = kind.languageId
          /\ fileName = kind.fileName
    /\ document \in SessionDocuments(languageId)
    /\ maxProblems = DefaultMaxProblems
    /\ compiler \in [SessionExpressions(languageId) -> Outcomes]
    /\ validatedText =
          IF utilsIsJsonataFile(languageId, fileName, document)
          THEN document ELSE NotValidated
    /\ diagnostics = <<>>
    /\ collection =
          IF utilsIsJsonataFile(languageId, fileName, document)
          THEN validateDocument(<<>>, document, languageId, fileName,
                                maxProblems, compiler)
          ELSE <<>>
    /\ timers = 0 /\ burst = NoBurst /\ closed = FALSE
    /\ IdleSpan /\ IdleError /\ IdleScan /\ IdleRange
    /\ IdlePlay /\ IdleImport

\* onDidChangeTextDocument: a change of the text arrives; while a callback
\* of an earlier change has not run yet, the earlier change is less than
\* 500 ms old and the burst goes on
ChangeTextDocument ==
    /\ ~closed
    /\ burst.events < MaxBurstEvents
    /\ \E text \in SessionDocuments(languageId) :
          /\ text # document
          /\ document' = text
          /\ IF utilsIsJsonataFile(languageId, fileName, text)
             THEN /\ timers' = timers + 1
                  /\ burst' = IF timers = 0 THEN [events |-> 1, runs |-> 0]
                              ELSE [burst EXCEPT !.events = @ + 1]
             ELSE UNCHANGED <<timers, burst>>
    /\ pc' = "changed"
    /\ UNCHANGED <<maxProblems, closed, spanVars, errorVars, passVars,
                   scanVars, rangeVars, sessionVars, playVars, importVars>>

\* 500 ms after its change event a callback of setTimeout runs
\* validateDocument(event.document)
TimerFires ==
    /\ timers > 0
    /\ timers' = timers - 1
    /\ burst' = [burst EXCEPT !.runs = @ + 1]
    /\ collection' = validateDocument(collection, document, languageId,
                                      fileName, maxProblems, compiler)
    /\ validatedText' = document
    /\ pc' = "validated"
    /\ UNCHANGED <<diagnostics, closed, docVars, spanVars, errorVars,
                   scanVars, rangeVars, languageId, fileName, compiler,
                   playVars, importVars>>

\* onDidCloseTextDocument: diagnosticCollection.delete(document.uri)
CloseTextDocument ==
    /\ ~closed
    /\ closed' = TRUE
    /\ collection' = <<>>
    /\ pc' = "closed"
    /\ UNCHANGED <<diagnostics, timers, burst, docVars, spanVars, errorVars,
                   scanVars, rangeVars, sessionVars, playVars, importVars>>

NextTyping == ChangeTextDocument \/ TimerFires \/ CloseTextDocument

SpecTyping == InitTyping /\ [][NextTyping]_vars

\* no callback of the change listener is waiting to run
Quiet == timers = 0

\* C25: for a burst of change events on one document in which each event
\* arrives less than 500 ms after the previous one, validation of that
\* document runs once, after the last event, rather than once per event.
C25_DebouncedValidation ==
    (Quiet /\ burst.events > 0) => burst.runs = 1

\* once the callbacks of a burst on a .jsonata document have run, the text
\* validated last is the text of the document
LastRunSeesFinalText ==
    (Quiet /\ burst.events > 0 /\ languageId # "json")
    => validatedText = document

\* C26: in every interleaving of change events, their delayed validations
\* and a close event for the same document, once the document has been
\* closed and all pending timers have fired the diagnostic collection holds
\* nothing for that document.
C26_ClosedKeepsNoDiagnostics ==
    (closed /\ Quiet) => collection = <<>>

(***************************************************************************)
(* Scenario "overlap": the playground's fields are updated while earlier   *)
(* evaluations are still suspended at their await, and the suspended       *)
(* evaluations settle in any order                                         *)
(***************************************************************************)
\* most evaluations suspended at the same time
MaxOverlap == 2

\* the error of the scenario: ']' at offset 0
BracketError == [hasPosition |-> TRUE, position |-> 0, token |-> <<"]">>]

\* what jsonata(text) does for the expression texts of the scenario: the
\* default expression compiles, each other text compiles or is rejected
OverlapCompilers ==
    {oracle \in [PlayTexts \cup {DefaultJsonataExpression}
                    -> {Returns, Throws(BracketError)}] :
        oracle[DefaultJsonataExpression] = Returns}

\* the evaluations of the scenario: the compiler decides by the expression
\* text, the evaluation returns a value or throws the error
OverlapEvaluations(st) ==
    {ev \in Evaluations(st) :
        /\ ev.compile = compiler[st.jsonataExpression]
        /\ ev.run.throws => ev.run.error = BracketError}

InitOverlap ==
    /\ pc = "constructed"
    /\ state = InitialState
    /\ editors = <<>>
    /\ playgroundDiagnostics = {}
    /\ pending = <<NoEvaluation>>
    /\ evaluation = NoEvaluation
    /\ document = <<>>
    /\ maxProblems = DefaultMaxProblems
    /\ IdleSpan /\ IdleError /\ IdlePass /\ IdleScan /\ IdleRange
    /\ IdleTyping
    /\ languageId = "jsonata"
    /\ fileName = JsonataFileName
    /\ compiler \in OverlapCompilers
    /\ validatedText = NotValidated
    /\ session = NoSession /\ answers = NoAnswers /\ returned = "none"
    /\ currentPanel = "open"

\* `this.evaluateExpression()` on the fields of st, up to its end (where the
\* state is sent to the webview) or its await
BeginOverlapping(st) ==
    \E ev \in OverlapEvaluations(st) :
       LET begun == beginEvaluation(st, ev)
       IN  /\ state' = begun.state
           /\ playgroundDiagnostics' = begun.diagnostics
           /\ evaluation' = ev
           /\ pending' = IF begun.suspended THEN Append(pending, ev) ELSE pending
           /\ pc' = IF begun.suspended THEN "updated" ELSE "sent"

\* updateJsonInput(jsonData)
UpdateJsonInput ==
    /\ Len(pending) < MaxOverlap
    /\ \E jsonData \in PlayTexts :
          BeginOverlapping([state EXCEPT !.jsonInput = jsonData])
    /\ UNCHANGED <<editors, docVars, spanVars, errorVars, passVars, scanVars,
                   rangeVars, sessionVars, importVars, typingVars>>

\* updateJsonataExpression(expression)
UpdateJsonataExpression ==
    /\ Len(pending) < MaxOverlap
    /\ \E text \in PlayTexts :
          BeginOverlapping([state EXCEPT !.jsonataExpression = text])
    /\ UNCHANGED <<editors, docVars, spanVars, errorVars, passVars, scanVars,
                   rangeVars, sessionVars, importVars, typingVars>>

\* the promise of one of the suspended evaluations settles and its
\* evaluateExpression runs to its end, where the state is sent
FinishAnyEvaluation ==
    /\ \E k \in 1..Len(pending) :
          LET done == finishEvaluation(state, playgroundDiagnostics, pending[k])
          IN  /\ state' = done.state
              /\ playgroundDiagnostics' = done.diagnostics
              /\ pending' = SubSeq(pending, 1, k - 1)
                               \o SubSeq(pending, k + 1, Len(pending))
    /\ pc' = "sent"
    /\ UNCHANGED <<editors, evaluation, docVars, spanVars, errorVars,
                   passVars, scanVars, rangeVars, sessionVars, importVars,
                   typingVars>>

\* the webview's 'requestState' message: the state is sent as it is
RequestState ==
    /\ pc # "sent"
    /\ pc' = "sent"
    /\ UNCHANGED <<docVars, spanVars, errorVars, passVars, scanVars,
                   rangeVars, sessionVars, playVars, importVars, typingVars>>

NextOverlap ==
    \/ UpdateJsonInput
    \/ UpdateJsonataExpression
    \/ FinishAnyEvaluation
    \/ RequestState

SpecOverlap == InitOverlap /\ [][NextOverlap]_vars

\* result and error of evaluating the fields of evaluation ev
ResultOf(ev) ==
    IF ev.parses /\ ~ev.compile.throws /\ ~ev.run.throws
    THEN stringify(ev.value) ELSE <<>>

ErrorOf(ev) ==
    IF ~ev.parses THEN "Invalid JSON input"
    ELSE IF ev.compile.throws THEN "JSONata compilation error"
    ELSE IF ev.run.throws THEN "JSONata runtime error"
    ELSE "null"

\* C27: for every sequence of playground input/expression updates whose
\* asynchronous evaluations overlap and complete in any order, once all
\* evaluations have finished the state's result and error are those of
\* evaluating the current jsonataExpression against the current jsonInput.
C27_LatestEvaluationWins ==
    Settled =>
       /\ evaluation.jsonInput = state.jsonInput
       /\ evaluation.jsonataExpression = state.jsonataExpression
       /\ state.result = ResultOf(evaluation)
       /\ state.error = ErrorOf(evaluation)

\* the state has just been sent to the webview
Sent == pc = "sent"

\* C28: in every state sent to the webview, under any interleaving of
\* overlapping evaluations, error is non-null if and only if errorDetails is
\* non-null, a non-null error implies result is the empty string, and the
\* playground diagnostic collection holds at most one diagnostic and none
\* when error is null.
C28_StateConsistency ==
    Sent =>
       /\ state.error # "null" <=> state.errorDetails # NoErrorDetails
       /\ state.error # "null" => state.result = <<>>
       /\ Cardinality(playgroundDiagnostics) <= 1
       /\ state.error = "null" => playgroundDiagnostics = {}

\* the parts of the consistency that do not involve the result
ErrorAndDiagnosticsConsistent ==
    Sent =>
       /\ state.error # "null" <=> state.errorDetails # NoErrorDetails
       /\ Cardinality(playgroundDiagnostics) <= 1
       /\ state.error = "null" => playgroundDiagnostics = {}

====
